---- MODULE Spec2Model ----
(***************************************************************************)
(* Verification model of mqtt-mux-router: the rule index (exact-match map  *)
(* plus wildcard topic tree), the message pool, the rule processor with    *)
(* its worker pool, and the MQTT broker adapters.                          *)
(*                                                                         *)
(* A topic string is modelled by the sequence of its "/"-separated         *)
(* segments, i.e. by strings.Split(topic, "/"); the empty topic is the     *)
(* one-segment sequence <<"">>.                                            *)
(***************************************************************************)
EXTENDS Integers, Sequences, FiniteSets, TLC

(***************************************************************************)
(* Bounds of the model.                                                    *)
(***************************************************************************)
MaxDepth == 3
MaxHeld == 2
MaxFinds == 1
MaxUnderflow == 1
NCallers == 2
NWorkers == 1
QueueSize == 1
MaxCalls == 2
MaxSubmits == 1
MaxLoads == 1
MaxMsgs == 3
MaxLosses == 1
MaxDeliveries == 1
MaxHandled == 2
MaxLen == 3

(***************************************************************************)
(* Generic helpers on sequences.                                           *)
(***************************************************************************)
Range(s) == {s[i] : i \in DOMAIN s}

Count(x, s) == Cardinality({i \in DOMAIN s : s[i] = x})

\* append(s[:i], s[i+1:]...) for the first i with s[i] = x (no change when absent)
RemoveFirst(x, s) ==
  LET i == IF \E k \in DOMAIN s : s[k] = x
             THEN CHOOSE k \in DOMAIN s : s[k] = x /\ \A j \in 1..(k - 1) : s[j] # x
             ELSE 0
  IN IF i = 0 THEN s ELSE SubSeq(s, 1, i - 1) \o SubSeq(s, i + 1, Len(s))

(***************************************************************************)
(* Topics.  Segments are strings; which segments contain the characters   *)
(* "+" and "#" is tabulated, as TLC does not look inside strings.          *)
(***************************************************************************)
SegHasPlus == {"+", "a+"}

SegHasHash == {"#", "b#"}

SeqsUpTo(S, n) == UNION {[1..k -> S] : k \in 1..n}

\* concrete (wildcard-free, non-empty) topics
ConcreteTopics == SeqsUpTo({"a", "b"}, MaxDepth)

EmptyTopic == <<"">>

\* topics handed to the Find action: concrete ones of every depth, the empty
\* topic, and a string that carries a wildcard character
FindTopics ==
  {<<"a">>, <<"a", "b">>, <<"b", "b">>, <<"a", "b", "a">>, EmptyTopic, <<"a", "+">>}

\* index.go: containsWildcard
containsWildcard(topic) ==
  \E i \in DOMAIN topic : topic[i] \in SegHasPlus \/ topic[i] \in SegHasHash

(***************************************************************************)
(* Templates are sequences of tokens: literal text or a ${var} placeholder.*)
(***************************************************************************)
L(s) == [k |-> "lit", v |-> s]

V(s) == [k |-> "var", v |-> s]

NoCond == [nil |-> TRUE]

MkRule(t, en, c, at, ap) ==
  [Topic |-> t, Enabled |-> en, SourceBroker |-> "", Conditions |-> c,
   Action |-> [Topic |-> at, Payload |-> ap]]

(***************************************************************************)
(* The rule objects (pointer identities) of the model.                     *)
(***************************************************************************)
Rule ==
  <<MkRule(<<"a", "b">>, TRUE, NoCond, <<L("out")>>, <<L("v="), V("t")>>),
    MkRule(<<"a", "+">>, TRUE, NoCond, <<L("out/"), V("id")>>, <<V("t")>>),
    [MkRule(<<"a", "#">>, TRUE, NoCond, <<L("all")>>, <<>>)
       EXCEPT !.SourceBroker = "broker1"],
    MkRule(<<"#">>, FALSE, NoCond, <<L("any")>>, <<V("id")>>),
    MkRule(<<"+", "b">>, TRUE, [nil |-> FALSE, field |-> "t", operator |-> "gt", value |-> 1], <<L("plus")>>, <<>>),
    [MkRule(<<"a", "b">>, TRUE, [nil |-> FALSE, field |-> "t", operator |-> "gt", value |-> 1], <<L("out2")>>, <<>>)
       EXCEPT !.SourceBroker = "broker2"],
    MkRule(<<"a", "#", "b">>, TRUE, NoCond, <<L("bad")>>, <<>>),
    MkRule(<<"a", "b#">>, TRUE, NoCond, <<L("odd")>>, <<>>)>>

Rules == DOMAIN Rule

(***************************************************************************)
(* State.                                                                  *)
(***************************************************************************)
VARIABLES
  exactMatches,   \* RuleIndex.exactMatches: topic -> list of rules
  tree,           \* RuleIndex.wildcardTree: node path -> TopicNode
  idxStats,       \* RuleIndex.stats
  held,           \* history: how many times each rule is currently held
  lastFind,       \* history: topic and result of the latest Find
  mu,             \* RuleIndex.mu ("idx") and TopicTree.mu ("tree")
  thr,            \* per thread: the index call it is in and what is left of it
  idxCalls        \* history: number of index calls started by the threads

VARIABLES
  msgs,           \* the ProcessingMessage objects allocated so far, by identity
  pool,           \* MessagePool: the objects currently in the sync.Pool
  lastGet,        \* history: what the latest MessagePool.Get observed
  stats,          \* Processor.stats
  call,           \* per caller thread: position in and locals of Processor.Process
  calls,          \* history: number of Process calls started
  jobChan,        \* Processor.jobChan: the buffered messages
  closed,         \* whether jobChan has been closed
  submits,        \* history: number of messages enqueued
  wState,         \* per worker goroutine: its position
  wMsg,           \* per worker goroutine: the message it owns (0: none)
  closePc,        \* position of the thread calling Processor.Close
  loader,         \* position in and locals of Processor.LoadRules
  loads,          \* history: number of LoadRules calls started
  loadedPrev      \* history: the rules installed by the latest completed LoadRules

procVars == <<msgs, pool, lastGet, stats, call, calls, jobChan, closed, submits,
              wState, wMsg, closePc, loader, loads, loadedPrev>>

VARIABLES
  linkUp,         \* whether the network connection to the MQTT broker is up
  sessionSubs,    \* the topic filters the MQTT broker holds for the client's session
  routes,         \* the topic filters the client library routes to a callback, in order
  connected,      \* ConnectionManagerImpl.connected
  topics,         \* Broker.topics, SubscriptionManagerImpl.topics
  subscribed,     \* Broker.subscribed, SubscriptionManagerImpl.subscribed
  brokerStats,    \* BrokerStats
  pending,        \* the routes whose callback is still to run for the received message
  received,       \* the message received last, history: Process calls made for it
  deliveries,     \* history: number of messages received
  losses,         \* history: number of connection losses
  lostSubs,       \* history: the subscriptions that were active at the latest loss
  restored        \* history: the connect handler ran to its end after the latest loss

adapterVars == <<linkUp, sessionSubs, routes, connected, topics, subscribed, brokerStats,
                 pending, received, deliveries, losses, lostSubs, restored>>

VARIABLES
  smTopics,       \* SubscriptionManager.topics: exact topic -> QoS
  wildcards,      \* SubscriptionManager.wildcards: the tree of wildcard filters
  lastMatch       \* history: the latest SubscriptionManager.Match call and its result

VARIABLES
  lastProcess     \* history: the latest Process(msg) call of the message router and its result

routerVars == <<lastProcess>>

VARIABLES
  snap            \* position in and locals of Processor.GetStats; history: the counter
                  \* triples held since the call began

observerVars == <<snap>>

VARIABLES
  natsConnected,  \* what the NATS ConnectionManager's IsConnected returns
  natsSubs,       \* SubscriptionManagerImpl.subs of the NATS adapter: the subscribed topics
  natsStats,      \* NATSBroker.stats
  natsHist,       \* history: messages handled, actions returned, publishes tried and failed
  natsRun         \* the context given to Start, NATSBroker.wg, the position of Close

natsVars == <<natsConnected, natsSubs, natsStats, natsHist, natsRun>>

VARIABLES
  conv            \* a topic string on its way through ToNATSSubject and ToMQTTTopic

convVars == <<conv>>

VARIABLES
  mbState,        \* ManagedBroker.State
  mbClientUp,     \* what the MQTT client's IsConnected returns
  mbOnConnect,    \* the client has connected and its OnConnect handler is due
  mbTopics,       \* ManagedBroker.Subscriptions.topics: topic -> qos
  mbLast,         \* history: the latest Subscribe, Unsubscribe or Publish call
  mbAuto,         \* what the client does in the background: "off", "connect", "reconnect"
  mbConnect,      \* history: the latest return of ManagedBroker.Connect
  mbStopped       \* history: Manager.Stop has returned

managedVars ==
  <<mbState, mbClientUp, mbOnConnect, mbTopics, mbLast, mbAuto, mbConnect, mbStopped>>

subsVars == <<smTopics, wildcards, lastMatch>>

indexVars == <<exactMatches, tree, idxStats, held, lastFind, mu, thr, idxCalls>>

vars == <<indexVars, procVars, adapterVars, subsVars, routerVars, observerVars,
          natsVars, convVars, managedVars>>

(***************************************************************************)
(* TopicTree (internal/rule/topic_tree.go).  A tree is a function from the *)
(* path of a node (the segments from the root) to the node; the children  *)
(* of a node are the paths one segment longer.                             *)
(***************************************************************************)
NewNode(segment) ==
  [segment |-> segment, isWildcard |-> segment \in {"+", "#"}, rules |-> <<>>]

EmptyTree == (<<>> :> NewNode(""))

HasChildren(t, path) ==
  \E q \in DOMAIN t : Len(q) = Len(path) + 1 /\ SubSeq(q, 1, Len(path)) = path

DeleteNode(t, path) == [q \in (DOMAIN t) \ {path} |-> t[q]]

RECURSIVE AddRuleWalk(_, _, _, _)
\* the loop of TopicTree.AddRule from segment i on
AddRuleWalk(t, segments, i, rule) ==
  IF i > Len(segments) THEN [tree |-> t, err |-> FALSE]
  ELSE
    LET segment == segments[i]
        isLast == i = Len(segments)
        path == SubSeq(segments, 1, i)
    IN IF segment = "#" /\ ~isLast THEN [tree |-> t, err |-> TRUE]
       ELSE IF segment \in SegHasPlus /\ segment # "+" THEN [tree |-> t, err |-> TRUE]
       ELSE
         LET t1 == IF path \in DOMAIN t THEN t ELSE (path :> NewNode(segment)) @@ t
             t2 == IF isLast
                     THEN [t1 EXCEPT ![path].rules = Append(@, rule)]
                     ELSE t1
         IN AddRuleWalk(t2, segments, i + 1, rule)

AddRule(t, rule) ==
  IF Rule[rule].Topic = EmptyTopic THEN [tree |-> t, err |-> TRUE]
  ELSE AddRuleWalk(t, Rule[rule].Topic, 1, rule)

RECURSIVE removeRule(_, _, _, _)
\* depth is 1-based: the node is the one at path segments[1..depth-1]
removeRule(t, segments, depth, rule) ==
  IF depth > Len(segments) THEN [tree |-> t, err |-> FALSE]
  ELSE
    LET child == SubSeq(segments, 1, depth)
    IN IF child \notin DOMAIN t THEN [tree |-> t, err |-> TRUE]
       ELSE IF depth = Len(segments)
         THEN
           LET t1 == [t EXCEPT ![child].rules = RemoveFirst(rule, @)]
           IN [tree |-> IF Len(t1[child].rules) = 0 /\ ~HasChildren(t1, child)
                          THEN DeleteNode(t1, child) ELSE t1,
               err |-> FALSE]
         ELSE
           LET r == removeRule(t, segments, depth + 1, rule)
           IN IF r.err THEN r
              ELSE [tree |-> IF Len(r.tree[child].rules) = 0 /\ ~HasChildren(r.tree, child)
                               THEN DeleteNode(r.tree, child) ELSE r.tree,
                    err |-> FALSE]

RemoveRule(t, rule) ==
  IF Rule[rule].Topic = EmptyTopic THEN [tree |-> t, err |-> TRUE]
  ELSE removeRule(t, Rule[rule].Topic, 1, rule)

RECURSIVE findMatches_noPlus(_, _, _, _)
\* findMatches without the single-level wildcard branch
findMatches_noPlus(t, node, segments, depth) ==
  IF depth = Len(segments) THEN t[node].rules
  ELSE
    LET segment == segments[depth + 1]
        exact == Append(node, segment)
        hash == Append(node, "#")
    IN (IF exact \in DOMAIN t THEN findMatches_noPlus(t, exact, segments, depth + 1) ELSE <<>>)
       \o (IF hash \in DOMAIN t THEN t[hash].rules ELSE <<>>)

RECURSIVE findMatches(_, _, _, _)
\* the rules appended to *matches by findMatches(node, segments, depth);
\* depth is 0-based as in the source, node is given by its path
findMatches(t, node, segments, depth) ==
  IF depth = Len(segments) THEN t[node].rules
  ELSE
    LET segment == segments[depth + 1]
        exact == Append(node, segment)
        plus == Append(node, "+")
        hash == Append(node, "#")
    IN (IF exact \in DOMAIN t THEN findMatches(t, exact, segments, depth + 1) ELSE <<>>)
       \o (IF plus \in DOMAIN t THEN findMatches(t, plus, segments, depth + 1) ELSE <<>>)
       \o (IF hash \in DOMAIN t THEN t[hash].rules ELSE <<>>)

\* FindMatches whose walk collects the multi-level wildcard child first and
\* the exact child last
FindMatches_hashFirst(t, topic) ==
  LET RECURSIVE walk(_, _)
      walk(node, depth) ==
        IF depth = Len(topic) THEN t[node].rules
        ELSE
          LET segment == topic[depth + 1]
              exact == Append(node, segment)
              plus == Append(node, "+")
              hash == Append(node, "#")
          IN (IF hash \in DOMAIN t THEN t[hash].rules ELSE <<>>)
             \o (IF plus \in DOMAIN t THEN walk(plus, depth + 1) ELSE <<>>)
             \o (IF exact \in DOMAIN t THEN walk(exact, depth + 1) ELSE <<>>)
  IN IF topic = EmptyTopic THEN <<>> ELSE walk(<<>>, 0)

FindMatches(t, topic) ==
  IF topic = EmptyTopic THEN <<>> ELSE findMatches(t, <<>>, topic, 0)

(***************************************************************************)
(* RuleIndex (internal/rule/index.go).  uint64 counters are represented by *)
(* the residue of their value in (-2^63, 2^63): -1 stands for 2^64 - 1.     *)
(***************************************************************************)
NewRuleIndexStats == [RuleCount |-> 0, Lookups |-> 0, Matches |-> 0, WildcardRules |-> 0]

\* Find that consults the wildcard tree before the exact-match map
Find_wildcardFirst(em, t, topic) ==
  FindMatches(t, topic) \o (IF topic \in DOMAIN em THEN em[topic] ELSE <<>>)

\* what RuleIndex.Find returns for the index (em, t)
Find(em, t, topic) ==
  (IF topic \in DOMAIN em THEN em[topic] ELSE <<>>) \o FindMatches(t, topic)

HeldTotal == LET RECURSIVE Sum(_)
                 Sum(n) == IF n = 0 THEN 0 ELSE held[n] + Sum(n - 1)
             IN Sum(Len(Rule))

\* RuleIndex.Add on the index (em, t, st): the new index and the error flag
Add(em, t, st, rule) ==
  IF containsWildcard(Rule[rule].Topic)
    THEN LET r == AddRule(t, rule)
         IN IF r.err
              THEN [exactMatches |-> em, tree |-> r.tree, stats |-> st, err |-> TRUE]
              ELSE [exactMatches |-> em, tree |-> r.tree,
                    stats |-> [st EXCEPT !.WildcardRules = @ + 1, !.RuleCount = @ + 1],
                    err |-> FALSE]
    ELSE [exactMatches |->
            IF Rule[rule].Topic \in DOMAIN em
              THEN [em EXCEPT ![Rule[rule].Topic] = Append(@, rule)]
              ELSE (Rule[rule].Topic :> <<rule>>) @@ em,
          tree |-> t,
          stats |-> [st EXCEPT !.RuleCount = @ + 1],
          err |-> FALSE]

\* RuleIndex.Remove on the index (em, t, st)
Remove(em, t, st, rule) ==
  IF containsWildcard(Rule[rule].Topic)
    THEN LET r == RemoveRule(t, rule)
         IN IF r.err
              THEN [exactMatches |-> em, tree |-> r.tree, stats |-> st, err |-> TRUE]
              ELSE [exactMatches |-> em, tree |-> r.tree,
                    stats |-> [st EXCEPT !.WildcardRules = @ - 1, !.RuleCount = @ - 1],
                    err |-> FALSE]
    ELSE LET topic == Rule[rule].Topic
             rules == IF topic \in DOMAIN em THEN em[topic] ELSE <<>>
             rest == RemoveFirst(rule, rules)
         IN [exactMatches |->
               IF Len(rest) = 0
                 THEN [q \in (DOMAIN em) \ {topic} |-> em[q]]
                 ELSE [em EXCEPT ![topic] = rest],
             tree |-> t,
             stats |-> [st EXCEPT !.RuleCount = @ - 1],
             err |-> FALSE]

\* Clear that also resets the lookup and match totals
Clear_resetAll(st) ==
  [exactMatches |-> <<>>, tree |-> EmptyTree, stats |-> NewRuleIndexStats]

\* RuleIndex.Clear
Clear(st) ==
  [exactMatches |-> <<>>, tree |-> EmptyTree,
   stats |-> [st EXCEPT !.RuleCount = 0, !.WildcardRules = 0]]

\* Find counters that count every lookup as a match
FindStats_always(st, matches) ==
  [st EXCEPT !.Lookups = @ + 1, !.Matches = @ + 1]

\* the counters of RuleIndex.Find after a lookup that returned matches
FindStats(st, matches) ==
  [st EXCEPT !.Lookups = @ + 1,
             !.Matches = IF Len(matches) > 0 THEN @ + 1 ELSE @]

IndexAdd(rule) ==
  /\ HeldTotal < MaxHeld
  /\ LET r == Add(exactMatches, tree, idxStats, rule)
     IN /\ exactMatches' = r.exactMatches
        /\ tree' = r.tree
        /\ idxStats' = r.stats
        /\ held' = IF r.err THEN held ELSE [held EXCEPT ![rule] = @ + 1]
  /\ UNCHANGED <<mu, thr, idxCalls, lastFind, procVars, adapterVars, subsVars,
                 routerVars, observerVars, natsVars, convVars, managedVars>>

IndexRemove(rule) ==
  /\ idxStats.RuleCount > -MaxUnderflow
  /\ LET r == Remove(exactMatches, tree, idxStats, rule)
     IN /\ exactMatches' = r.exactMatches
        /\ tree' = r.tree
        /\ idxStats' = r.stats
        /\ held' = IF r.err \/ held[rule] = 0 THEN held ELSE [held EXCEPT ![rule] = @ - 1]
  /\ UNCHANGED <<mu, thr, idxCalls, lastFind, procVars, adapterVars, subsVars,
                 routerVars, observerVars, natsVars, convVars, managedVars>>

IndexFind(topic) ==
  /\ idxStats.Lookups < MaxFinds
  /\ LET matches == Find(exactMatches, tree, topic)
     IN /\ lastFind' = [topic |-> topic, result |-> matches, done |-> TRUE]
        /\ idxStats' = FindStats(idxStats, matches)
  /\ UNCHANGED <<mu, thr, idxCalls, exactMatches, tree, held, procVars,
                 adapterVars, subsVars, routerVars, observerVars, natsVars,
                 convVars, managedVars>>

IndexClear ==
  /\ LET r == Clear(idxStats)
     IN /\ exactMatches' = r.exactMatches
        /\ tree' = r.tree
        /\ idxStats' = r.stats
  /\ held' = [r \in Rules |-> 0]
  /\ UNCHANGED <<mu, thr, idxCalls, lastFind, procVars, adapterVars, subsVars,
                 routerVars, observerVars, natsVars, convVars, managedVars>>

(***************************************************************************)
(* The locking of the rule index.  A sync.RWMutex is the writer that has   *)
(* announced itself (w, 0 for none) and the set of readers inside: Lock    *)
(* first takes w, which keeps new readers out, and then waits until the   *)
(* readers inside have left; RLock waits while w is taken.                 *)
(***************************************************************************)
\* one lock operation of a call on mutex m, or the body of the call
I(k, m) == [k |-> k, m |-> m]

\* Remove that takes the tree lock before the index lock
Program_treeFirst(op, arg) ==
  CASE op \in {"add", "remove"} ->
         IF containsWildcard(Rule[arg].Topic)
           THEN IF op = "remove"
                  THEN <<I("Lock", "tree"), I("Wait", "tree"), I("Lock", "idx"),
                         I("Wait", "idx"), I("Do", ""), I("Unlock", "idx"),
                         I("Unlock", "tree")>>
                  ELSE <<I("Lock", "idx"), I("Wait", "idx"), I("Lock", "tree"),
                         I("Wait", "tree"), I("Do", ""), I("Unlock", "tree"),
                         I("Unlock", "idx")>>
           ELSE <<I("Lock", "idx"), I("Wait", "idx"), I("Do", ""), I("Unlock", "idx")>>
    [] op = "find" -> <<I("RLock", "idx"), I("RLock", "tree"), I("Do", ""),
                        I("RUnlock", "tree"), I("RUnlock", "idx")>>
    [] op = "clear" -> <<I("Lock", "idx"), I("Wait", "idx"), I("Do", ""),
                         I("Unlock", "idx")>>
    [] op = "stats" -> <<I("Do", "")>>

\* the lock operations of Add, Remove, Find, Clear and GetStats around their
\* bodies: idx.mu first, then the tree's mutex inside AddRule, RemoveRule
\* and FindMatches; GetStats takes no lock
Program(op, arg) ==
  CASE op \in {"add", "remove"} ->
         IF containsWildcard(Rule[arg].Topic)
           THEN <<I("Lock", "idx"), I("Wait", "idx"), I("Lock", "tree"),
                  I("Wait", "tree"), I("Do", ""), I("Unlock", "tree"),
                  I("Unlock", "idx")>>
           ELSE <<I("Lock", "idx"), I("Wait", "idx"), I("Do", ""), I("Unlock", "idx")>>
    [] op = "find" -> <<I("RLock", "idx"), I("RLock", "tree"), I("Do", ""),
                        I("RUnlock", "tree"), I("RUnlock", "idx")>>
    [] op = "clear" -> <<I("Lock", "idx"), I("Wait", "idx"), I("Do", ""),
                         I("Unlock", "idx")>>
    [] op = "stats" -> <<I("Do", "")>>

\* thread t calls op on the index
Locked_Call(t, op, arg) ==
  /\ thr[t].todo = <<>>
  /\ idxCalls < MaxCalls
  /\ idxCalls' = idxCalls + 1
  /\ thr' = [thr EXCEPT ![t] = [op |-> op, arg |-> arg, todo |-> Program(op, arg)]]
  /\ UNCHANGED <<exactMatches, tree, idxStats, held, lastFind, mu, procVars,
                 adapterVars, subsVars, routerVars, observerVars, natsVars,
                 convVars, managedVars>>

\* the body of the call thread t is in, run with its locks held
Locked_Do(t) ==
  LET op == thr[t].op
      arg == thr[t].arg
  IN CASE op = "add" ->
            LET r == Add(exactMatches, tree, idxStats, arg)
            IN /\ exactMatches' = r.exactMatches
               /\ tree' = r.tree
               /\ idxStats' = r.stats
               /\ held' = IF r.err THEN held ELSE [held EXCEPT ![arg] = @ + 1]
               /\ UNCHANGED lastFind
       [] op = "remove" ->
            LET r == Remove(exactMatches, tree, idxStats, arg)
            IN /\ exactMatches' = r.exactMatches
               /\ tree' = r.tree
               /\ idxStats' = r.stats
               /\ held' = IF r.err \/ held[arg] = 0 THEN held
                                                     ELSE [held EXCEPT ![arg] = @ - 1]
               /\ UNCHANGED lastFind
       [] op = "find" ->
            LET topic == Rule[arg].Topic
                matches == Find(exactMatches, tree, topic)
            IN /\ lastFind' = [topic |-> topic, result |-> matches, done |-> TRUE]
               /\ idxStats' = FindStats(idxStats, matches)
               /\ UNCHANGED <<exactMatches, tree, held>>
       [] op = "clear" ->
            LET r == Clear(idxStats)
            IN /\ exactMatches' = r.exactMatches
               /\ tree' = r.tree
               /\ idxStats' = r.stats
               /\ held' = [q \in Rules |-> 0]
               /\ UNCHANGED lastFind
       [] op = "stats" ->
            UNCHANGED <<exactMatches, tree, idxStats, held, lastFind>>

\* thread t takes the next step of its call, if the mutex lets it
Locked_Step(t) ==
  /\ thr[t].todo # <<>>
  /\ LET i == Head(thr[t].todo)
     IN /\ CASE i.k = "Lock" ->
                  /\ mu[i.m].w = 0
                  /\ mu' = [mu EXCEPT ![i.m].w = t]
             [] i.k = "Wait" ->
                  /\ mu[i.m].readers = {}
                  /\ mu' = mu
             [] i.k = "RLock" ->
                  /\ mu[i.m].w = 0
                  /\ mu' = [mu EXCEPT ![i.m].readers = @ \cup {t}]
             [] i.k = "Unlock" -> mu' = [mu EXCEPT ![i.m].w = 0]
             [] i.k = "RUnlock" -> mu' = [mu EXCEPT ![i.m].readers = @ \ {t}]
             [] i.k = "Do" -> mu' = mu
        /\ IF i.k = "Do"
             THEN Locked_Do(t)
             ELSE UNCHANGED <<exactMatches, tree, idxStats, held, lastFind>>
  /\ thr' = [thr EXCEPT ![t].todo = Tail(@)]
  /\ UNCHANGED <<idxCalls, procVars, adapterVars, subsVars, routerVars,
                 observerVars, natsVars, convVars, managedVars>>

(***************************************************************************)
(* Payloads.  A payload is named by a string; json.Unmarshal into the     *)
(* (empty) value map of a pooled message either fails or yields the map.   *)
(***************************************************************************)
Payloads == {"bad", "t1", "t2"}

EmptyMap == <<>>

\* whether json.Unmarshal(payload, &msg.Values) succeeds
UnmarshalOK(payload) == payload # "bad"

\* the value map json.Unmarshal leaves in msg.Values
Unmarshal(payload) ==
  CASE payload = "t1" -> ("t" :> 1)
    [] payload = "t2" -> ("t" :> 2)
    [] OTHER -> EmptyMap

\* evaluation of a conditions tree with one "gt" leaf: false when the field
\* is absent, numeric comparison otherwise
evaluateConditions(conditions, values) ==
  /\ conditions.field \in DOMAIN values
  /\ values[conditions.field] > conditions.value

\* Processor.convertToString for the numeric values of the model
convertToString(value) == ToString(value)

\* Processor.processTemplate: every placeholder whose path resolves is
\* replaced by the string form of its value, the others are left in place;
\* the returned error is always nil
processTemplate(template, data) ==
  [result |->
     [i \in DOMAIN template |->
        IF template[i].k = "var" /\ template[i].v \in DOMAIN data
          THEN L(convertToString(data[template[i].v]))
          ELSE template[i]],
   err |-> FALSE]

\* strings.Contains(s, "${")
HasPlaceholder(template) == \E i \in DOMAIN template : template[i].k = "var"

\* Processor.processActionTemplate
processActionTemplate(action, values) ==
  LET topic == IF HasPlaceholder(action.Topic)
                 THEN processTemplate(action.Topic, values)
                 ELSE [result |-> action.Topic, err |-> FALSE]
      payload == processTemplate(action.Payload, values)
  IN IF topic.err \/ payload.err
       THEN [action |-> [Topic |-> <<>>, Payload |-> <<>>], err |-> TRUE]
       ELSE [action |-> [Topic |-> topic.result, Payload |-> payload.result],
             err |-> FALSE]

\* a rule loop that returns from Process with no action at the first rule
\* whose rendered action still holds a placeholder, instead of going on
ProcessRules_abort(rules, values) ==
  LET RECURSIVE Loop(_, _)
      Loop(rs, acc) ==
        IF Len(rs) = 0 THEN acc
        ELSE
          LET rule == Rule[Head(rs)]
          IN IF rule.Conditions.nil \/ evaluateConditions(rule.Conditions, values)
               THEN LET a == processActionTemplate(rule.Action, values)
                    IN IF \/ a.err
                          \/ HasPlaceholder(a.action.Topic)
                          \/ HasPlaceholder(a.action.Payload)
                         THEN <<>>
                         ELSE Loop(Tail(rs), Append(acc, a.action))
               ELSE Loop(Tail(rs), acc)
  IN Loop(rules, <<>>)

RECURSIVE ProcessRules(_, _)
\* the "Process rules" loop of Processor.Process: the actions appended to
\* msg.Actions for the rules in order
ProcessRules(rules, values) ==
  IF Len(rules) = 0 THEN <<>>
  ELSE
    LET rule == Rule[Head(rules)]
        rest == ProcessRules(Tail(rules), values)
    IN IF rule.Conditions.nil \/ evaluateConditions(rule.Conditions, values)
         THEN LET a == processActionTemplate(rule.Action, values)
              IN IF a.err THEN rest ELSE <<a.action>> \o rest
         ELSE rest

(***************************************************************************)
(* MessagePool (internal/rule/pool.go).                                    *)
(***************************************************************************)
\* the object built by the pool's New function
NewMessage ==
  [Topic |-> EmptyTopic, Payload |-> "", Values |-> EmptyMap,
   Rules |-> <<>>, Actions |-> <<>>]

\* MessagePool.Put that leaves the action list of the message in place
PutClear_keepActions(msg) ==
  [Topic |-> EmptyTopic, Payload |-> "", Values |-> EmptyMap,
   Rules |-> <<>>, Actions |-> msg.Actions]

\* the clearing MessagePool.Put applies to a message before pooling it
PutClear(msg) ==
  [Topic |-> EmptyTopic, Payload |-> "", Values |-> EmptyMap,
   Rules |-> <<>>, Actions |-> <<>>]

\* MessagePool.Get: the identities it may return, a pooled object or a new one
GetChoices ==
  pool \cup (IF Cardinality(DOMAIN msgs) < MaxMsgs
               THEN {Cardinality(DOMAIN msgs) + 1} ELSE {})

\* the objects after Get returned m and the caller filled topic and payload
MsgsAfterGet(m, topic, payload) ==
  LET base == IF m \in DOMAIN msgs THEN msgs ELSE msgs @@ (m :> NewMessage)
  IN [base EXCEPT ![m].Topic = topic, ![m].Payload = payload]

ObservedByGet(m) ==
  [msg |-> IF m \in DOMAIN msgs THEN msgs[m] ELSE NewMessage, fromPool |-> m \in pool]

Callers == 1..NCallers

Workers == 1..NWorkers

ProcTopics == {<<"a", "b">>, <<"b", "a">>}

RuleLists == {<<1, 2>>, <<6>>, <<3>>}

\* a call record; array is the pooled message whose backing array the list
\* in actions shares, 0 for a list that has an array of its own
IdleCall ==
  [pc |-> "idle", topic |-> EmptyTopic, payload |-> "", msg |-> 0, actions |-> <<>>,
   array |-> 0, err |-> FALSE, dProcessed |-> 0, dMatched |-> 0, dErrors |-> 0,
   consistent |-> TRUE]

\* the index LoadRules(rules) leaves behind when nothing interferes
RECURSIVE AddAll(_, _, _, _)
AddAll(em, t, st, rules) ==
  IF Len(rules) = 0 THEN [exactMatches |-> em, tree |-> t, stats |-> st]
  ELSE LET r == Add(em, t, st, Head(rules))
       IN AddAll(r.exactMatches, r.tree, r.stats, Tail(rules))

FindOfLoaded(rules, topic) ==
  LET idx == AddAll(<<>>, EmptyTree, NewRuleIndexStats, rules)
  IN Find(idx.exactMatches, idx.tree, topic)

(***************************************************************************)
(* Processor.Process (internal/rule/processor.go), one action per step    *)
(* between which other threads can run.                                    *)
(***************************************************************************)
\* history kept for a GetStats call in progress: the counter triple st has
\* now been held while the call runs
Observed(st) ==
  IF snap.pc \in {"idle", "done"} THEN snap ELSE [snap EXCEPT !.seen = @ \cup {st}]

\* lines 88-90: take a message from the pool, fill topic and payload
Process_Get(c, topic, payload) ==
  /\ call[c].pc \in {"idle", "done"}
  /\ calls < MaxCalls
  /\ \E m \in GetChoices :
       /\ lastGet' = ObservedByGet(m)
       /\ msgs' = MsgsAfterGet(m, topic, payload)
       /\ pool' = pool \ {m}
       /\ call' = [call EXCEPT ![c] =
                     [IdleCall EXCEPT !.pc = "find", !.topic = topic,
                                      !.payload = payload, !.msg = m]]
  /\ calls' = calls + 1
  /\ UNCHANGED <<indexVars, stats, jobChan, closed, submits, wState, wMsg,
                 closePc, loader, loads, loadedPrev, adapterVars, subsVars,
                 routerVars, observerVars, natsVars, convVars, managedVars>>

\* lines 93-97: look the topic up; no rule: return the message, yield nil, nil
Process_Find(c) ==
  /\ call[c].pc = "find"
  /\ LET m == call[c].msg
         matches == Find(exactMatches, tree, call[c].topic)
         ok == \/ matches = FindOfLoaded(loadedPrev, call[c].topic)
               \/ /\ loader.pc # "idle"
                  /\ matches = FindOfLoaded(loader.rules, call[c].topic)
     IN /\ idxStats' = FindStats(idxStats, matches)
        /\ IF Len(matches) = 0
             THEN /\ msgs' = [msgs EXCEPT ![m] = PutClear(@)]
                  /\ pool' = pool \cup {m}
                  /\ call' = [call EXCEPT ![c].pc = "done", ![c].msg = 0,
                                          ![c].consistent = ok]
             ELSE /\ msgs' = [msgs EXCEPT ![m].Rules = matches]
                  /\ pool' = pool
                  /\ call' = [call EXCEPT ![c].pc = "parse", ![c].consistent = ok]
  /\ UNCHANGED <<mu, thr, idxCalls, exactMatches, tree, held, lastFind, lastGet,
                 stats, calls, jobChan, closed, submits, wState, wMsg, closePc,
                 loader, loads, loadedPrev, adapterVars, subsVars, routerVars,
                 observerVars, natsVars, convVars, managedVars>>

\* Process_Parse that hands msg.Actions itself to the caller instead of a
\* copy: the appends of a later call that reuses the message write into the
\* array the earlier caller's list still points at
Process_Parse_noCopy(c) ==
  /\ call[c].pc = "parse"
  /\ LET m == call[c].msg
     IN IF ~UnmarshalOK(call[c].payload)
          THEN /\ msgs' = [msgs EXCEPT ![m] = PutClear(@)]
               /\ pool' = pool \cup {m}
               /\ stats' = [stats EXCEPT !.Errors = @ + 1]
               /\ call' = [call EXCEPT ![c].pc = "done", ![c].msg = 0, ![c].err = TRUE,
                                       ![c].dErrors = @ + 1]
          ELSE LET values == Unmarshal(call[c].payload)
                   actions == ProcessRules(msgs[m].Rules, values)
                   written(old) == [i \in DOMAIN old |->
                                      IF i <= Len(actions) THEN actions[i] ELSE old[i]]
               IN /\ msgs' = [msgs EXCEPT ![m].Values = values, ![m].Actions = actions]
                  /\ pool' = pool
                  /\ stats' = stats
                  /\ call' = [d \in Callers |->
                               IF d = c
                                 THEN [call[c] EXCEPT !.pc = "count", !.actions = actions,
                                                      !.array = m]
                                 ELSE IF call[d].array = m
                                        THEN [call[d] EXCEPT !.actions = written(@)]
                                        ELSE call[d]]
  /\ snap' = Observed(stats')
  /\ UNCHANGED <<indexVars, lastGet, calls, jobChan, closed, submits, wState,
                 wMsg, closePc, loader, loads, loadedPrev, adapterVars, subsVars,
                 routerVars, natsVars, convVars, managedVars>>

\* Process_Parse that counts an error for every returned action in which a
\* placeholder was left in place
Process_Parse_countRender(c) ==
  /\ call[c].pc = "parse"
  /\ LET m == call[c].msg
     IN IF ~UnmarshalOK(call[c].payload)
          THEN /\ msgs' = [msgs EXCEPT ![m] = PutClear(@)]
               /\ pool' = pool \cup {m}
               /\ stats' = [stats EXCEPT !.Errors = @ + 1]
               /\ call' = [call EXCEPT ![c].pc = "done", ![c].msg = 0, ![c].err = TRUE,
                                       ![c].dErrors = @ + 1]
          ELSE LET values == Unmarshal(call[c].payload)
                   actions == ProcessRules(msgs[m].Rules, values)
                   failed == Cardinality({i \in DOMAIN actions :
                                            \/ HasPlaceholder(actions[i].Topic)
                                            \/ HasPlaceholder(actions[i].Payload)})
               IN /\ msgs' = [msgs EXCEPT ![m].Values = values, ![m].Actions = actions]
                  /\ pool' = pool
                  /\ stats' = [stats EXCEPT !.Errors = @ + failed]
                  /\ call' = [call EXCEPT ![c].pc = "count", ![c].actions = actions,
                                          ![c].dErrors = @ + failed]
  /\ snap' = Observed(stats')
  /\ UNCHANGED <<indexVars, lastGet, calls, jobChan, closed, submits, wState,
                 wMsg, closePc, loader, loads, loadedPrev, adapterVars, subsVars,
                 routerVars, natsVars, convVars, managedVars>>

\* Process_Parse that fails on an undecodable payload without counting the
\* error and without giving the message back
Process_Parse_silent(c) ==
  /\ call[c].pc = "parse"
  /\ LET m == call[c].msg
     IN IF ~UnmarshalOK(call[c].payload)
          THEN /\ msgs' = msgs
               /\ pool' = pool
               /\ stats' = stats
               /\ call' = [call EXCEPT ![c].pc = "done", ![c].msg = 0, ![c].err = TRUE]
          ELSE LET values == Unmarshal(call[c].payload)
                   actions == ProcessRules(msgs[m].Rules, values)
               IN /\ msgs' = [msgs EXCEPT ![m].Values = values, ![m].Actions = actions]
                  /\ pool' = pool
                  /\ stats' = stats
                  /\ call' = [call EXCEPT ![c].pc = "count", ![c].actions = actions]
  /\ snap' = Observed(stats')
  /\ UNCHANGED <<indexVars, lastGet, calls, jobChan, closed, submits, wState,
                 wMsg, closePc, loader, loads, loadedPrev, adapterVars, subsVars,
                 routerVars, natsVars, convVars, managedVars>>

\* lines 100-122: decode the payload (on failure: return the message, count
\* the error, fail), run the rules and copy the actions out of the message
Process_Parse(c) ==
  /\ call[c].pc = "parse"
  /\ LET m == call[c].msg
     IN IF ~UnmarshalOK(call[c].payload)
          THEN /\ msgs' = [msgs EXCEPT ![m] = PutClear(@)]
               /\ pool' = pool \cup {m}
               /\ stats' = [stats EXCEPT !.Errors = @ + 1]
               /\ call' = [call EXCEPT ![c].pc = "done", ![c].msg = 0, ![c].err = TRUE,
                                       ![c].dErrors = @ + 1]
          ELSE LET values == Unmarshal(call[c].payload)
                   actions == ProcessRules(msgs[m].Rules, values)
               IN /\ msgs' = [msgs EXCEPT ![m].Values = values, ![m].Actions = actions]
                  /\ pool' = pool
                  /\ stats' = stats
                  /\ call' = [call EXCEPT ![c].pc = "count", ![c].actions = actions]
  /\ snap' = Observed(stats')
  /\ UNCHANGED <<indexVars, lastGet, calls, jobChan, closed, submits, wState,
                 wMsg, closePc, loader, loads, loadedPrev, adapterVars, subsVars,
                 routerVars, natsVars, convVars, managedVars>>

\* Process_Count that adds to the counter with a plain read-modify-write of
\* the value another caller may have changed since: one update is lost
Process_Count_lossy(c) ==
  /\ call[c].pc = "count"
  /\ stats' = [stats EXCEPT !.Processed =
                 IF \E d \in Callers \ {c} : call[d].pc = "matched" THEN @ ELSE @ + 1]
  /\ call' = [call EXCEPT ![c].pc = "matched", ![c].dProcessed = @ + 1]
  /\ snap' = Observed(stats')
  /\ UNCHANGED <<indexVars, msgs, pool, lastGet, calls, jobChan, closed, submits,
                 wState, wMsg, closePc, loader, loads, loadedPrev, adapterVars,
                 subsVars, routerVars, natsVars, convVars, managedVars>>

\* line 124: atomic.AddUint64(&p.stats.Processed, 1)
Process_Count(c) ==
  /\ call[c].pc = "count"
  /\ stats' = [stats EXCEPT !.Processed = @ + 1]
  /\ call' = [call EXCEPT ![c].pc = "matched", ![c].dProcessed = @ + 1]
  /\ snap' = Observed(stats')
  /\ UNCHANGED <<indexVars, msgs, pool, lastGet, calls, jobChan, closed, submits,
                 wState, wMsg, closePc, loader, loads, loadedPrev, adapterVars,
                 subsVars, routerVars, natsVars, convVars, managedVars>>

\* Process_Return that returns without giving the message back to the pool
Process_Return_noPut(c) ==
  /\ call[c].pc = "matched"
  /\ LET hit == Len(call[c].actions) > 0
     IN /\ stats' = IF hit THEN [stats EXCEPT !.Matched = @ + 1] ELSE stats
        /\ msgs' = msgs
        /\ pool' = pool
        /\ call' = [call EXCEPT ![c].pc = "done", ![c].msg = 0,
                                ![c].dMatched = IF hit THEN @ + 1 ELSE @]
  /\ snap' = Observed(stats')
  /\ UNCHANGED <<indexVars, lastGet, calls, jobChan, closed, submits, wState,
                 wMsg, closePc, loader, loads, loadedPrev, adapterVars, subsVars,
                 routerVars, natsVars, convVars, managedVars>>

\* lines 125-132: count the match, return the message to the pool, return
Process_Return(c) ==
  /\ call[c].pc = "matched"
  /\ LET m == call[c].msg
         hit == Len(call[c].actions) > 0
     IN /\ stats' = IF hit THEN [stats EXCEPT !.Matched = @ + 1] ELSE stats
        /\ msgs' = [msgs EXCEPT ![m] = PutClear(@)]
        /\ pool' = pool \cup {m}
        /\ call' = [call EXCEPT ![c].pc = "done", ![c].msg = 0,
                                ![c].dMatched = IF hit THEN @ + 1 ELSE @]
  /\ snap' = Observed(stats')
  /\ UNCHANGED <<indexVars, lastGet, calls, jobChan, closed, submits, wState,
                 wMsg, closePc, loader, loads, loadedPrev, adapterVars, subsVars,
                 routerVars, natsVars, convVars, managedVars>>

(***************************************************************************)
(* Processor.LoadRules: Clear, then one Add per rule, each under its own   *)
(* acquisition of the index lock.                                          *)
(***************************************************************************)
\* LoadRules that starts adding without clearing the index
LoadRules_Clear_keep(rules) ==
  /\ loader.pc = "idle"
  /\ loads < MaxLoads
  /\ loader' = [pc |-> "adding", rules |-> rules, i |-> 1]
  /\ loads' = loads + 1
  /\ UNCHANGED <<indexVars, msgs, pool, lastGet, stats, call, calls, jobChan,
                 closed, submits, wState, wMsg, closePc, loadedPrev, adapterVars,
                 subsVars, routerVars, observerVars, natsVars, convVars,
                 managedVars>>

\* line 67: p.index.Clear()
LoadRules_Clear(rules) ==
  /\ loader.pc = "idle"
  /\ loads < MaxLoads
  /\ LET r == Clear(idxStats)
     IN /\ exactMatches' = r.exactMatches
        /\ tree' = r.tree
        /\ idxStats' = r.stats
  /\ held' = [r \in Rules |-> 0]
  /\ loader' = [pc |-> "adding", rules |-> rules, i |-> 1]
  /\ loads' = loads + 1
  /\ UNCHANGED <<mu, thr, idxCalls, lastFind, msgs, pool, lastGet, stats, call,
                 calls, jobChan, closed, submits, wState, wMsg, closePc,
                 loadedPrev, adapterVars, subsVars, routerVars, observerVars,
                 natsVars, convVars, managedVars>>

\* lines 69-72: p.index.Add(&rules[i]), the error is dropped
LoadRules_Add ==
  /\ loader.pc = "adding"
  /\ loader.i <= Len(loader.rules)
  /\ LET r == Add(exactMatches, tree, idxStats, loader.rules[loader.i])
     IN /\ exactMatches' = r.exactMatches
        /\ tree' = r.tree
        /\ idxStats' = r.stats
        /\ held' = IF r.err THEN held
                   ELSE [held EXCEPT ![loader.rules[loader.i]] = @ + 1]
  /\ loader' = [loader EXCEPT !.i = @ + 1]
  /\ UNCHANGED <<mu, thr, idxCalls, lastFind, msgs, pool, lastGet, stats, call,
                 calls, jobChan, closed, submits, wState, wMsg, closePc, loads,
                 loadedPrev, adapterVars, subsVars, routerVars, observerVars,
                 natsVars, convVars, managedVars>>

\* lines 74-77: the loop is over, LoadRules returns nil
LoadRules_Return ==
  /\ loader.pc = "adding"
  /\ loader.i > Len(loader.rules)
  /\ loader' = [pc |-> "idle", rules |-> <<>>, i |-> 0]
  /\ loadedPrev' = loader.rules
  /\ UNCHANGED <<indexVars, msgs, pool, lastGet, stats, call, calls, jobChan,
                 closed, submits, wState, wMsg, closePc, loads, adapterVars,
                 subsVars, routerVars, observerVars, natsVars, convVars,
                 managedVars>>

(***************************************************************************)
(* The worker pool: submit, worker, processMessage, Close.                 *)
(***************************************************************************)
\* submit: take a message from the pool, fill it and enqueue it
Submit(topic, payload) ==
  /\ ~closed
  /\ submits < MaxSubmits
  /\ Len(jobChan) < QueueSize
  /\ \E m \in GetChoices :
       /\ lastGet' = ObservedByGet(m)
       /\ msgs' = MsgsAfterGet(m, topic, payload)
       /\ pool' = pool \ {m}
       /\ jobChan' = Append(jobChan, m)
  /\ submits' = submits + 1
  /\ UNCHANGED <<indexVars, stats, call, calls, closed, wState, wMsg, closePc,
                 loader, loads, loadedPrev, adapterVars, subsVars, routerVars,
                 observerVars, natsVars, convVars, managedVars>>

\* worker, line 264: receive the next message from jobChan
Worker_Receive(w) ==
  /\ wState[w] = "idle"
  /\ Len(jobChan) > 0
  /\ wMsg' = [wMsg EXCEPT ![w] = Head(jobChan)]
  /\ jobChan' = Tail(jobChan)
  /\ wState' = [wState EXCEPT ![w] = "running"]
  /\ UNCHANGED <<indexVars, msgs, pool, lastGet, stats, call, calls, closed,
                 submits, closePc, loader, loads, loadedPrev, adapterVars,
                 subsVars, routerVars, observerVars, natsVars, convVars,
                 managedVars>>

\* processMessage, lines 272-280: decode the payload; on failure count the
\* error and return the message to the pool, otherwise count the message
Worker_Process(w) ==
  /\ wState[w] = "running"
  /\ LET m == wMsg[w]
     IN IF ~UnmarshalOK(msgs[m].Payload)
          THEN /\ stats' = [stats EXCEPT !.Errors = @ + 1]
               /\ msgs' = [msgs EXCEPT ![m] = PutClear(@)]
               /\ pool' = pool \cup {m}
               /\ wMsg' = [wMsg EXCEPT ![w] = 0]
               /\ wState' = [wState EXCEPT ![w] = "idle"]
          ELSE /\ stats' = [stats EXCEPT !.Processed = @ + 1]
               /\ msgs' = [msgs EXCEPT ![m].Values = Unmarshal(msgs[m].Payload)]
               /\ pool' = pool
               /\ wMsg' = wMsg
               /\ wState' = [wState EXCEPT ![w] = "counted"]
  /\ snap' = Observed(stats')
  /\ UNCHANGED <<indexVars, lastGet, call, calls, jobChan, closed, submits,
                 closePc, loader, loads, loadedPrev, adapterVars, subsVars,
                 routerVars, natsVars, convVars, managedVars>>

\* a worker that ends after the first message it has returned to the pool
Worker_Finish_once(w) ==
  /\ wState[w] = "counted"
  /\ LET m == wMsg[w]
     IN /\ stats' = IF Len(msgs[m].Actions) > 0
                      THEN [stats EXCEPT !.Matched = @ + 1] ELSE stats
        /\ msgs' = [msgs EXCEPT ![m] = PutClear(@)]
        /\ pool' = pool \cup {m}
  /\ wMsg' = [wMsg EXCEPT ![w] = 0]
  /\ wState' = [wState EXCEPT ![w] = "stopped"]
  /\ snap' = Observed(stats')
  /\ UNCHANGED <<indexVars, lastGet, call, calls, jobChan, closed, submits,
                 closePc, loader, loads, loadedPrev, adapterVars, subsVars,
                 routerVars, natsVars, convVars, managedVars>>

\* processMessage, lines 281-284 and the deferred Put
Worker_Finish(w) ==
  /\ wState[w] = "counted"
  /\ LET m == wMsg[w]
     IN /\ stats' = IF Len(msgs[m].Actions) > 0
                      THEN [stats EXCEPT !.Matched = @ + 1] ELSE stats
        /\ msgs' = [msgs EXCEPT ![m] = PutClear(@)]
        /\ pool' = pool \cup {m}
  /\ wMsg' = [wMsg EXCEPT ![w] = 0]
  /\ wState' = [wState EXCEPT ![w] = "idle"]
  /\ snap' = Observed(stats')
  /\ UNCHANGED <<indexVars, lastGet, call, calls, jobChan, closed, submits,
                 closePc, loader, loads, loadedPrev, adapterVars, subsVars,
                 routerVars, natsVars, convVars, managedVars>>

\* a worker that leaves its loop as soon as the channel is closed
Worker_Exit_noDrain(w) ==
  /\ wState[w] = "idle"
  /\ closed
  /\ wState' = [wState EXCEPT ![w] = "stopped"]
  /\ UNCHANGED <<indexVars, msgs, pool, lastGet, stats, call, calls, jobChan,
                 closed, submits, wMsg, closePc, loader, loads, loadedPrev,
                 adapterVars, subsVars, routerVars, observerVars, natsVars,
                 convVars, managedVars>>

\* worker, lines 262-267: the range loop ends when jobChan is closed and
\* empty; the deferred wg.Done() runs
Worker_Exit(w) ==
  /\ wState[w] = "idle"
  /\ closed
  /\ Len(jobChan) = 0
  /\ wState' = [wState EXCEPT ![w] = "stopped"]
  /\ UNCHANGED <<indexVars, msgs, pool, lastGet, stats, call, calls, jobChan,
                 closed, submits, wMsg, closePc, loader, loads, loadedPrev,
                 adapterVars, subsVars, routerVars, observerVars, natsVars,
                 convVars, managedVars>>

\* Close, line 297: close(p.jobChan)
Close_Begin ==
  /\ closePc = "none"
  /\ closed' = TRUE
  /\ closePc' = "waiting"
  /\ UNCHANGED <<indexVars, msgs, pool, lastGet, stats, call, calls, jobChan,
                 submits, wState, wMsg, loader, loads, loadedPrev, adapterVars,
                 subsVars, routerVars, observerVars, natsVars, convVars,
                 managedVars>>

\* Close, line 298: p.wg.Wait() returns once every worker has called Done
Close_Return ==
  /\ closePc = "waiting"
  /\ \A w \in Workers : wState[w] = "stopped"
  /\ closePc' = "returned"
  /\ UNCHANGED <<indexVars, msgs, pool, lastGet, stats, call, calls, jobChan,
                 closed, submits, wState, wMsg, loader, loads, loadedPrev,
                 adapterVars, subsVars, routerVars, observerVars, natsVars,
                 convVars, managedVars>>

\* NewProcessor: empty index and pool, zero counters, workers started
InitProc ==
  /\ msgs = <<>>
  /\ pool = {}
  /\ lastGet = [msg |-> NewMessage, fromPool |-> FALSE]
  /\ stats = [Processed |-> 0, Matched |-> 0, Errors |-> 0]
  /\ call = [c \in Callers |-> IdleCall]
  /\ calls = 0
  /\ jobChan = <<>>
  /\ closed = FALSE
  /\ submits = 0
  /\ wState = [w \in Workers |-> "idle"]
  /\ wMsg = [w \in Workers |-> 0]
  /\ closePc = "none"
  /\ loader = [pc |-> "idle", rules |-> <<>>, i |-> 0]
  /\ loads = 0
  /\ loadedPrev = <<>>

NextProc ==
  \/ \E c \in Callers, topic \in ProcTopics, payload \in Payloads :
       Process_Get(c, topic, payload)
  \/ \E c \in Callers : Process_Find(c)
  \/ \E c \in Callers : Process_Parse(c)
  \/ \E c \in Callers : Process_Count(c)
  \/ \E c \in Callers : Process_Return(c)
  \/ \E rules \in RuleLists : LoadRules_Clear(rules)
  \/ LoadRules_Add
  \/ LoadRules_Return

\* one thread calling Process while messages are submitted to the worker
\* pool and the processor is closed
NextPool ==
  \/ \E topic \in ProcTopics, payload \in Payloads : Process_Get(1, topic, payload)
  \/ Process_Find(1)
  \/ Process_Parse(1)
  \/ Process_Count(1)
  \/ Process_Return(1)
  \/ \E rules \in RuleLists : LoadRules_Clear(rules)
  \/ LoadRules_Add
  \/ LoadRules_Return
  \/ \E topic \in ProcTopics, payload \in Payloads : Submit(topic, payload)
  \/ \E w \in Workers : Worker_Receive(w)
  \/ \E w \in Workers : Worker_Process(w)
  \/ \E w \in Workers : Worker_Finish(w)
  \/ \E w \in Workers : Worker_Exit(w)
  \/ Close_Begin
  \/ Close_Return

\* one rule is loaded before any call starts, then the callers process valid
\* payloads that satisfy its conditions on a topic it matches
NextConc ==
  \/ \E rules \in {l \in RuleLists : Len(l) = 1} :
       /\ calls = 0
       /\ LoadRules_Clear(rules)
  \/ LoadRules_Add
  \/ LoadRules_Return
  \/ \E c \in Callers :
       /\ loadedPrev # <<>>
       /\ loader.pc = "idle"
       /\ Process_Get(c, <<"a", "b">>, "t2")
  \/ \E c \in Callers : Process_Find(c)
  \/ \E c \in Callers : Process_Parse(c)
  \/ \E c \in Callers : Process_Count(c)
  \/ \E c \in Callers : Process_Return(c)

(***************************************************************************)
(* The MQTT adapters.  The client library and the broker are the          *)
(* environment: the session is clean, so the broker drops the session's    *)
(* subscriptions when the connection is lost; the client keeps its routes  *)
(* and hands a received message to the callback of every route whose       *)
(* filter matches the message's topic.                                     *)
(***************************************************************************)
RECURSIVE FilterMatches(_, _)
\* MQTT topic filter matching: "+" one level, "#" the rest
FilterMatches(filter, topic) ==
  IF Len(filter) = 0 THEN Len(topic) = 0
  ELSE IF filter[1] = "#" THEN TRUE
  ELSE IF Len(topic) = 0 THEN FALSE
  ELSE /\ filter[1] = "+" \/ filter[1] = topic[1]
       /\ FilterMatches(Tail(filter), Tail(topic))

RECURSIVE Unique(_)
\* the elements of a sequence without repetition
Unique(s) ==
  IF Len(s) = 0 THEN <<>>
  ELSE LET rest == Unique(SubSeq(s, 1, Len(s) - 1))
       IN IF s[Len(s)] \in Range(rest) THEN rest ELSE Append(rest, s[Len(s)])

\* the unique topics of a rule list, as Start collects them
RuleTopics(rules) == Unique([i \in DOMAIN rules |-> Rule[rules[i]].Topic])

RECURSIVE AddRoutes(_, _)
\* the client's routes after Subscribe was called for each topic of ts
AddRoutes(rs, ts) ==
  IF Len(ts) = 0 THEN rs
  ELSE AddRoutes(IF Head(ts) \in Range(rs) THEN rs ELSE Append(rs, Head(ts)), Tail(ts))

\* the adapter's view of its subscriptions
SubState == [topics |-> topics, subscribed |-> subscribed, sessionSubs |-> sessionSubs,
             routes |-> routes]

\* client.Subscribe for each topic in turn: with the connection down the
\* first call fails and nothing is subscribed
SubscribeEach(ts, up, st) ==
  IF up \/ Len(ts) = 0
    THEN [ok |-> TRUE, sessionSubs |-> st.sessionSubs \cup Range(ts),
          routes |-> AddRoutes(st.routes, ts)]
    ELSE [ok |-> FALSE, sessionSubs |-> st.sessionSubs, routes |-> st.routes]

\* Processor.LoadRules run to its end with nothing in between
LoadRules(rules) == AddAll(<<>>, EmptyTree, Clear(idxStats).stats, rules)

\* Processor.Process run to its end with nothing in between, on message m
ProcessWhole(topic, payload) ==
  LET matches == Find(exactMatches, tree, topic)
      ist == FindStats(idxStats, matches)
  IN IF Len(matches) = 0
       THEN [idxStats |-> ist, stats |-> stats, actions |-> <<>>, err |-> FALSE]
       ELSE IF ~UnmarshalOK(payload)
         THEN [idxStats |-> ist, stats |-> [stats EXCEPT !.Errors = @ + 1],
               actions |-> <<>>, err |-> TRUE]
         ELSE LET actions == ProcessRules(matches, Unmarshal(payload))
              IN [idxStats |-> ist,
                  stats |-> [stats EXCEPT !.Processed = @ + 1,
                                          !.Matched = IF Len(actions) > 0 THEN @ + 1 ELSE @],
                  actions |-> actions, err |-> FALSE]

\* the effect of one callback invocation on the processor and the pool
CallProcess(r) ==
  /\ idxStats' = r.idxStats
  /\ stats' = r.stats
  /\ snap' = Observed(r.stats)
  /\ \E m \in GetChoices :
       /\ lastGet' = ObservedByGet(m)
       /\ msgs' = IF m \in DOMAIN msgs THEN msgs ELSE msgs @@ (m :> NewMessage)
       /\ pool' = pool \cup {m}

\* Publisher.PublishAction for each action: every one is counted as published
PublishActions(published, actions) == published + Len(actions)

\* the client receives a message from the broker and queues the callbacks
\* of the matching routes
Client_Receive(topic, payload) ==
  /\ linkUp
  /\ Len(pending) = 0
  /\ deliveries < MaxDeliveries
  /\ \E f \in sessionSubs : FilterMatches(f, topic)
  /\ pending' = SelectSeq(routes, LAMBDA f : FilterMatches(f, topic))
  /\ received' = [topic |-> topic, payload |-> payload, calls |-> 0]
  /\ deliveries' = deliveries + 1
  /\ UNCHANGED <<indexVars, procVars, linkUp, sessionSubs, routes, connected,
                 topics, subscribed, brokerStats, losses, lostSubs, restored,
                 subsVars, routerVars, observerVars, natsVars, convVars,
                 managedVars>>

(***************************************************************************)
(* Broker (internal/broker/broker.go).                                     *)
(***************************************************************************)
\* Broker.subscribe
subscribe(up, st) ==
  IF st.subscribed
    THEN st
    ELSE LET r == SubscribeEach(st.topics, up, st)
         IN [st EXCEPT !.subscribed = r.ok, !.sessionSubs = r.sessionSubs,
                       !.routes = r.routes]

\* Broker.Start
Broker_Start(rules) ==
  /\ loads < MaxLoads
  /\ LET idx == LoadRules(rules)
         sub == subscribe(linkUp, [SubState EXCEPT !.topics = RuleTopics(rules)])
     IN /\ exactMatches' = idx.exactMatches
        /\ tree' = idx.tree
        /\ idxStats' = idx.stats
        /\ subscribed' = sub.subscribed
        /\ sessionSubs' = sub.sessionSubs
        /\ routes' = sub.routes
  /\ held' = [r \in Rules |-> Count(r, rules)]
  /\ topics' = RuleTopics(rules)
  /\ loads' = loads + 1
  /\ loadedPrev' = rules
  /\ UNCHANGED <<mu, thr, idxCalls, lastFind, msgs, pool, lastGet, stats, call,
                 calls, jobChan, closed, submits, wState, wMsg, closePc, loader,
                 linkUp, connected, brokerStats, pending, received, deliveries,
                 losses, lostSubs, restored, subsVars, routerVars, observerVars,
                 natsVars, convVars, managedVars>>

\* the connection is lost: Broker.handleDisconnect
Broker_handleDisconnect ==
  /\ linkUp
  /\ losses < MaxLosses
  /\ linkUp' = FALSE
  /\ lostSubs' = sessionSubs
  /\ sessionSubs' = {}
  /\ subscribed' = FALSE
  /\ restored' = FALSE
  /\ losses' = losses + 1
  /\ UNCHANGED <<indexVars, procVars, routes, connected, topics, brokerStats,
                 pending, received, deliveries, subsVars, routerVars,
                 observerVars, natsVars, convVars, managedVars>>

\* the client has reconnected: Broker.handleConnect
Broker_handleConnect ==
  /\ ~linkUp
  /\ linkUp' = TRUE
  /\ LET needsSubscribe == ~subscribed /\ Len(topics) > 0
         sub == IF needsSubscribe THEN subscribe(TRUE, SubState) ELSE SubState
     IN /\ subscribed' = sub.subscribed
        /\ sessionSubs' = sub.sessionSubs
        /\ routes' = sub.routes
  /\ restored' = TRUE
  /\ UNCHANGED <<indexVars, procVars, connected, topics, brokerStats, pending,
                 received, deliveries, losses, lostSubs, subsVars, routerVars,
                 observerVars, natsVars, convVars, managedVars>>

\* the callback of the next matching route runs: Broker.handleMessage
Broker_handleMessage ==
  /\ Len(pending) > 0
  /\ LET r == ProcessWhole(received.topic, received.payload)
     IN /\ CallProcess(r)
        /\ brokerStats' =
             [brokerStats EXCEPT
                !.MessagesReceived = @ + 1,
                !.Errors = IF r.err THEN @ + 1
                           ELSE IF linkUp THEN @ ELSE @ + Len(r.actions),
                !.MessagesPublished = IF linkUp THEN @ + Len(r.actions) ELSE @]
  /\ pending' = Tail(pending)
  /\ received' = [received EXCEPT !.calls = @ + 1]
  /\ UNCHANGED <<mu, thr, idxCalls, exactMatches, tree, held, lastFind, call,
                 calls, jobChan, closed, submits, wState, wMsg, closePc, loader,
                 loads, loadedPrev, linkUp, sessionSubs, routes, connected,
                 topics, subscribed, deliveries, losses, lostSubs, restored,
                 subsVars, routerVars, natsVars, convVars, managedVars>>

(***************************************************************************)
(* The MQTT adapter of internal/broker/mqtt.                               *)
(***************************************************************************)
\* the rules are installed in the processor before the adapter subscribes
MQTT_LoadRules(rules) ==
  /\ loads < MaxLoads
  /\ LET idx == LoadRules(rules)
     IN /\ exactMatches' = idx.exactMatches
        /\ tree' = idx.tree
        /\ idxStats' = idx.stats
  /\ held' = [r \in Rules |-> Count(r, rules)]
  /\ loads' = loads + 1
  /\ loadedPrev' = rules
  /\ UNCHANGED <<mu, thr, idxCalls, lastFind, msgs, pool, lastGet, stats, call,
                 calls, jobChan, closed, submits, wState, wMsg, closePc, loader,
                 adapterVars, subsVars, routerVars, observerVars, natsVars,
                 convVars, managedVars>>

\* SubscriptionManagerImpl.Subscribe
Subscribe(ts, conn, up, st) ==
  IF ~conn
    THEN st
    ELSE LET r == SubscribeEach(ts, up, st)
         IN [topics |-> ts, subscribed |-> IF r.ok THEN TRUE ELSE st.subscribed,
             sessionSubs |-> r.sessionSubs, routes |-> r.routes]

MQTT_Subscribe(ts) ==
  /\ LET r == Subscribe(ts, connected, linkUp, SubState)
     IN /\ topics' = r.topics
        /\ subscribed' = r.subscribed
        /\ sessionSubs' = r.sessionSubs
        /\ routes' = r.routes
  /\ UNCHANGED <<indexVars, procVars, linkUp, connected, brokerStats, pending,
                 received, deliveries, losses, lostSubs, restored, subsVars,
                 routerVars, observerVars, natsVars, convVars, managedVars>>

\* SubscriptionManagerImpl.Unsubscribe
MQTT_Unsubscribe(ts) ==
  /\ connected
  /\ linkUp
  /\ sessionSubs' = sessionSubs \ Range(ts)
  /\ routes' = SelectSeq(routes, LAMBDA f : f \notin Range(ts))
  /\ topics' = SelectSeq(topics, LAMBDA t : t \notin Range(ts))
  /\ subscribed' = IF Len(topics') = 0 THEN FALSE ELSE subscribed
  /\ lostSubs' = lostSubs \ Range(ts)
  /\ UNCHANGED <<indexVars, procVars, linkUp, connected, brokerStats, pending,
                 received, deliveries, losses, restored, subsVars, routerVars,
                 observerVars, natsVars, convVars, managedVars>>

\* the connection is lost: ConnectionManagerImpl.handleDisconnect
MQTT_handleDisconnect ==
  /\ linkUp
  /\ losses < MaxLosses
  /\ linkUp' = FALSE
  /\ lostSubs' = sessionSubs
  /\ sessionSubs' = {}
  /\ connected' = FALSE
  /\ restored' = FALSE
  /\ losses' = losses + 1
  /\ UNCHANGED <<indexVars, procVars, routes, topics, subscribed, brokerStats,
                 pending, received, deliveries, subsVars, routerVars,
                 observerVars, natsVars, convVars, managedVars>>

\* MQTTBroker.RestoreRules: the stored rules are installed again, or it fails
RestoreRules(ok) ==
  IF ok
    THEN LET idx == LoadRules(loadedPrev)
         IN /\ exactMatches' = idx.exactMatches
            /\ tree' = idx.tree
            /\ idxStats' = idx.stats
    ELSE UNCHANGED <<exactMatches, tree, idxStats, subsVars, routerVars>>

\* the client has reconnected: ConnectionManagerImpl.handleConnect
MQTT_handleConnect(ok) ==
  /\ ~linkUp
  /\ linkUp' = TRUE
  /\ connected' = TRUE
  /\ RestoreRules(ok)
  /\ LET needsSubscribe == ~subscribed /\ Len(topics) > 0
         r == IF ok /\ needsSubscribe
                THEN Subscribe(topics, TRUE, TRUE, SubState) ELSE SubState
     IN /\ topics' = r.topics
        /\ subscribed' = r.subscribed
        /\ sessionSubs' = r.sessionSubs
        /\ routes' = r.routes
  /\ restored' = ok
  /\ UNCHANGED <<mu, thr, idxCalls, held, lastFind, procVars, brokerStats,
                 pending, received, deliveries, losses, lostSubs, subsVars,
                 routerVars, observerVars, natsVars, convVars, managedVars>>

\* the callback of the next matching route runs:
\* SubscriptionManagerImpl.HandleMessage
MQTT_HandleMessage ==
  /\ Len(pending) > 0
  /\ LET r == ProcessWhole(received.topic, received.payload)
     IN /\ CallProcess(r)
        /\ brokerStats' =
             [brokerStats EXCEPT
                !.MessagesReceived = @ + 1,
                !.Errors = IF r.err THEN @ + 1 ELSE @,
                !.MessagesPublished = IF r.err THEN @ ELSE PublishActions(@, r.actions)]
  /\ pending' = Tail(pending)
  /\ received' = [received EXCEPT !.calls = @ + 1]
  /\ UNCHANGED <<mu, thr, idxCalls, exactMatches, tree, held, lastFind, call,
                 calls, jobChan, closed, submits, wState, wMsg, closePc, loader,
                 loads, loadedPrev, linkUp, sessionSubs, routes, connected,
                 topics, subscribed, deliveries, losses, lostSubs, restored,
                 subsVars, routerVars, natsVars, convVars, managedVars>>

\* the clients are connected, nothing is subscribed
InitAdapter ==
  /\ linkUp = TRUE
  /\ sessionSubs = {}
  /\ routes = <<>>
  /\ connected = TRUE
  /\ topics = <<>>
  /\ subscribed = FALSE
  /\ brokerStats = [MessagesReceived |-> 0, MessagesPublished |-> 0, Errors |-> 0]
  /\ pending = <<>>
  /\ received = [topic |-> EmptyTopic, payload |-> "", calls |-> 0]
  /\ deliveries = 0
  /\ losses = 0
  /\ lostSubs = {}
  /\ restored = FALSE

NextBroker ==
  \/ \E rules \in RuleLists : Broker_Start(rules)
  \/ Broker_handleDisconnect
  \/ Broker_handleConnect
  \/ \E topic \in ProcTopics, payload \in Payloads : Client_Receive(topic, payload)
  \/ Broker_handleMessage

NextMQTT ==
  \/ MQTT_LoadRules(<<1, 2>>)
  \/ \E ts \in {<<<<"a", "+">>>>, <<<<"a", "b">>, <<"a", "+">>>>} : MQTT_Subscribe(ts)
  \/ \E ts \in {<<<<"a", "+">>>>, <<<<"a", "b">>, <<"a", "+">>>>} : MQTT_Unsubscribe(ts)
  \/ MQTT_handleDisconnect
  \/ \E ok \in BOOLEAN : MQTT_handleConnect(ok)
  \/ \E topic \in ProcTopics, payload \in {"bad", "t2"} : Client_Receive(topic, payload)
  \/ MQTT_HandleMessage

(***************************************************************************)
(* SubscriptionManager (internal/broker/subscription.go) and its tree of   *)
(* wildcard filters.  The tree is a function from the path of a node to    *)
(* the node, as for the rule tree.                                         *)
(***************************************************************************)
NewTopicNode(segment) ==
  [segment |-> segment, isWildcard |-> segment \in {"+", "#"}, isEnd |-> FALSE, qos |-> 0]

\* validateTopicFilter: whether the filter is accepted
validateTopicFilter(topic) ==
  /\ topic # EmptyTopic
  /\ \A i \in DOMAIN topic :
       /\ ~(topic[i] = "" /\ i # 1 /\ i # Len(topic))
       /\ topic[i] \in SegHasHash => (topic[i] = "#" /\ i = Len(topic))
       /\ topic[i] \in SegHasPlus => topic[i] = "+"

\* validateTopicName: whether the topic of a publication is accepted
validateTopicName(topic) ==
  /\ topic # EmptyTopic
  /\ ~containsWildcard(topic)
  /\ \A i \in DOMAIN topic : ~(topic[i] = "" /\ i # 1 /\ i # Len(topic))

RECURSIVE AddTopicWalk(_, _, _, _)
\* the loop of TopicTree.AddTopic from segment i on
AddTopicWalk(t, segments, i, qos) ==
  IF i > Len(segments) THEN [tree |-> t, err |-> FALSE]
  ELSE
    LET segment == segments[i]
        isLast == i = Len(segments)
        path == SubSeq(segments, 1, i)
    IN IF segment = "#" /\ ~isLast THEN [tree |-> t, err |-> TRUE]
       ELSE IF segment \in SegHasPlus /\ segment # "+" THEN [tree |-> t, err |-> TRUE]
       ELSE
         LET t1 == IF path \in DOMAIN t THEN t ELSE (path :> NewTopicNode(segment)) @@ t
             t2 == IF isLast
                     THEN [t1 EXCEPT ![path].isEnd = TRUE, ![path].qos = qos]
                     ELSE t1
         IN AddTopicWalk(t2, segments, i + 1, qos)

RECURSIVE removeNode(_, _, _)
\* depth is 1-based: the node is the one at path segments[1..depth-1]
removeNode(t, segments, depth) ==
  IF depth > Len(segments) THEN [tree |-> t, err |-> FALSE]
  ELSE
    LET child == SubSeq(segments, 1, depth)
    IN IF child \notin DOMAIN t THEN [tree |-> t, err |-> TRUE]
       ELSE IF depth = Len(segments)
         THEN IF ~t[child].isEnd THEN [tree |-> t, err |-> TRUE]
              ELSE LET t1 == [t EXCEPT ![child].isEnd = FALSE]
                   IN [tree |-> IF ~HasChildren(t1, child) THEN DeleteNode(t1, child) ELSE t1,
                       err |-> FALSE]
         ELSE
           LET r == removeNode(t, segments, depth + 1)
           IN IF r.err THEN r
              ELSE [tree |-> IF ~r.tree[child].isEnd /\ ~HasChildren(r.tree, child)
                               THEN DeleteNode(r.tree, child) ELSE r.tree,
                    err |-> FALSE]

RECURSIVE matchNode(_, _, _, _)
\* the matches appended by matchNode(node, segments, depth, currentPath);
\* depth is 0-based as in the source, node is given by its path, which is
\* also currentPath
matchNode(t, node, segments, depth) ==
  IF depth = Len(segments) /\ t[node].isEnd
    THEN <<[Topic |-> node, QoS |-> t[node].qos]>>
  ELSE
    LET hash == Append(node, "#")
        hashPart == IF hash \in DOMAIN t /\ t[hash].isEnd
                      THEN <<[Topic |-> hash, QoS |-> t[hash].qos]>> ELSE <<>>
    IN IF depth = Len(segments) THEN hashPart
       ELSE
         LET exact == Append(node, segments[depth + 1])
             plus == Append(node, "+")
         IN hashPart
            \o (IF exact \in DOMAIN t THEN matchNode(t, exact, segments, depth + 1) ELSE <<>>)
            \o (IF plus \in DOMAIN t THEN matchNode(t, plus, segments, depth + 1) ELSE <<>>)

\* Match that leaves the wildcard tree aside when the topic itself is subscribed
Match_exactOnly(tp, t, topic) ==
  IF ~validateTopicName(topic) THEN <<>>
  ELSE IF topic \in DOMAIN tp THEN <<[Topic |-> topic, QoS |-> tp[topic]]>>
  ELSE matchNode(t, <<>>, topic, 0)

\* SubscriptionManager.Match
Match(tp, t, topic) ==
  IF ~validateTopicName(topic) THEN <<>>
  ELSE (IF topic \in DOMAIN tp THEN <<[Topic |-> topic, QoS |-> tp[topic]]>> ELSE <<>>)
       \o matchNode(t, <<>>, topic, 0)

\* SubscriptionManager.AddSubscription
Subs_AddSubscription(topic, qos) ==
  /\ IF ~validateTopicFilter(topic)
       THEN UNCHANGED <<smTopics, wildcards>>
       ELSE IF containsWildcard(topic)
         THEN /\ wildcards' = AddTopicWalk(wildcards, topic, 1, qos).tree
              /\ smTopics' = smTopics
         ELSE /\ smTopics' = (topic :> qos) @@ smTopics
              /\ wildcards' = wildcards
  /\ UNCHANGED <<indexVars, procVars, adapterVars, lastMatch, routerVars,
                 observerVars, natsVars, convVars, managedVars>>

\* SubscriptionManager.RemoveSubscription
Subs_RemoveSubscription(topic) ==
  /\ IF ~validateTopicFilter(topic)
       THEN UNCHANGED <<smTopics, wildcards>>
       ELSE IF containsWildcard(topic)
         THEN /\ wildcards' = removeNode(wildcards, topic, 1).tree
              /\ smTopics' = smTopics
         ELSE /\ smTopics' = [q \in (DOMAIN smTopics) \ {topic} |-> smTopics[q]]
              /\ wildcards' = wildcards
  /\ UNCHANGED <<indexVars, procVars, adapterVars, lastMatch, routerVars,
                 observerVars, natsVars, convVars, managedVars>>

\* SubscriptionManager.Match
Subs_Match(topic) ==
  /\ lastMatch' = [topic |-> topic, result |-> Match(smTopics, wildcards, topic),
                   done |-> TRUE]
  /\ UNCHANGED <<indexVars, procVars, adapterVars, smTopics, wildcards,
                 routerVars, observerVars, natsVars, convVars, managedVars>>

\* SubscriptionManager.Clear
Subs_Clear ==
  /\ smTopics' = <<>>
  /\ wildcards' = (<<>> :> NewTopicNode(""))
  /\ UNCHANGED <<indexVars, procVars, adapterVars, lastMatch, routerVars,
                 observerVars, natsVars, convVars, managedVars>>

NextSubs ==
  \/ \E topic \in {<<"a", "b">>, <<"a", "#">>, <<"#">>, <<"+", "#">>, <<"a", "+">>,
                     <<"a", "#", "b">>, <<"a", "b#">>, EmptyTopic} :
       \/ \E qos \in {0, 1} : Subs_AddSubscription(topic, qos)
       \/ Subs_RemoveSubscription(topic)
  \/ \E topic \in
         {<<"a">>, <<"b">>, <<"a", "b">>, <<"a", "b", "a">>, EmptyTopic, <<"a", "+">>} :
       Subs_Match(topic)
  \/ Subs_Clear

(***************************************************************************)
(* The message router's revision of the processor, kept in                *)
(* internal/rule/evaluator_test.go: Process(msg) takes a message that     *)
(* carries the name of the broker it arrived on and returns one           *)
(* MatchResult per applied rule.                                          *)
(***************************************************************************)
\* processTemplate(template, values, isTopicTemplate): a missing variable is
\* an error in a topic template and the empty string in a payload template
processTemplate_v2(template, values, isTopicTemplate) ==
  IF isTopicTemplate /\ \E i \in DOMAIN template :
                          template[i].k = "var" /\ template[i].v \notin DOMAIN values
    THEN [result |-> <<>>, err |-> TRUE]
    ELSE [result |->
            [i \in DOMAIN template |->
               IF template[i].k = "var"
                 THEN IF template[i].v \in DOMAIN values
                        THEN L(convertToString(values[template[i].v]))
                        ELSE L("")
                 ELSE template[i]],
          err |-> FALSE]

\* processActionTemplate(action, msg)
processActionTemplate_v2(action, values) ==
  LET topic == processTemplate_v2(action.Topic, values, TRUE)
      payload == IF Len(action.Payload) > 0
                   THEN processTemplate_v2(action.Payload, values, FALSE)
                   ELSE [result |-> <<>>, err |-> FALSE]
  IN IF topic.err \/ payload.err
       THEN [action |-> [Topic |-> <<>>, Payload |-> <<>>], err |-> TRUE]
       ELSE [action |-> [Topic |-> topic.result, Payload |-> payload.result],
             err |-> FALSE]

\* a rule loop that applies a rule whatever broker the message came from
MatchResults_anyBroker(rules, values, sourceBroker) ==
  LET RECURSIVE Loop(_, _)
      Loop(rs, acc) ==
        IF Len(rs) = 0 THEN acc
        ELSE
          LET rule == Rule[Head(rs)]
          IN IF ~rule.Enabled THEN Loop(Tail(rs), acc)
             ELSE IF ~rule.Conditions.nil /\ ~evaluateConditions(rule.Conditions, values)
               THEN Loop(Tail(rs), acc)
             ELSE
               LET a == processActionTemplate_v2(rule.Action, values)
               IN IF a.err
                    THEN Loop(Tail(rs), [acc EXCEPT !.errors = @ + 1, !.lastErr = TRUE])
                    ELSE Loop(Tail(rs),
                              [acc EXCEPT !.results =
                                 Append(@, [Rule |-> Head(rs), Action |-> a.action])])
  IN Loop(rules, [results |-> <<>>, errors |-> 0, lastErr |-> FALSE])

\* the "Process each matching rule" loop of Process(msg): the results, the
\* number of render errors and whether one occurred
MatchResults(rules, values, sourceBroker) ==
  LET RECURSIVE Loop(_, _)
      Loop(rs, acc) ==
        IF Len(rs) = 0 THEN acc
        ELSE
          LET rule == Rule[Head(rs)]
          IN IF ~rule.Enabled THEN Loop(Tail(rs), acc)
             ELSE IF rule.SourceBroker # "" /\ rule.SourceBroker # sourceBroker
               THEN Loop(Tail(rs), acc)
             ELSE IF ~rule.Conditions.nil /\ ~evaluateConditions(rule.Conditions, values)
               THEN Loop(Tail(rs), acc)
             ELSE
               LET a == processActionTemplate_v2(rule.Action, values)
               IN IF a.err
                    THEN Loop(Tail(rs), [acc EXCEPT !.errors = @ + 1, !.lastErr = TRUE])
                    ELSE Loop(Tail(rs),
                              [acc EXCEPT !.results =
                                 Append(@, [Rule |-> Head(rs), Action |-> a.action])])
  IN Loop(rules, [results |-> <<>>, errors |-> 0, lastErr |-> FALSE])

\* Process(msg) for a message with no decoded values yet
Process_v2(topic, payload, sourceBroker) ==
  /\ calls < MaxCalls
  /\ calls' = calls + 1
  /\ LET call0 == [done |-> TRUE, topic |-> topic, payload |-> payload,
                   sourceBroker |-> sourceBroker, values |-> EmptyMap, rules |-> <<>>,
                   results |-> <<>>, err |-> FALSE]
     IN IF topic = EmptyTopic
          THEN /\ lastProcess' = [call0 EXCEPT !.err = TRUE]
               /\ UNCHANGED <<stats, idxStats>>
          ELSE IF payload # "" /\ ~UnmarshalOK(payload)
            THEN /\ lastProcess' = [call0 EXCEPT !.err = TRUE]
                 /\ stats' = [stats EXCEPT !.Processed = @ + 1, !.Errors = @ + 1]
                 /\ UNCHANGED idxStats
          ELSE
            LET values == IF payload # "" THEN Unmarshal(payload) ELSE EmptyMap
                rules == Find(exactMatches, tree, topic)
                r == MatchResults(rules, values, sourceBroker)
            IN /\ idxStats' = FindStats(idxStats, rules)
               /\ stats' = [stats EXCEPT !.Processed = @ + 1,
                                         !.Errors = @ + r.errors,
                                         !.Matched = @ + Len(r.results)]
               /\ lastProcess' =
                    [call0 EXCEPT !.values = values, !.rules = rules,
                                  !.results = r.results,
                                  !.err = (Len(r.results) = 0 /\ r.lastErr)]
  /\ snap' = Observed(stats')
  /\ UNCHANGED <<mu, thr, idxCalls, exactMatches, tree, held, lastFind, msgs,
                 pool, lastGet, call, jobChan, closed, submits, wState, wMsg,
                 closePc, loader, loads, loadedPrev, adapterVars, subsVars,
                 natsVars, convVars, managedVars>>

\* rules added to the index as the processor's tests add them, and messages
\* from either broker
NextRouter ==
  \/ \E rule \in {1, 2, 3, 4, 6} : IndexAdd(rule)
  \/ \E topic \in {<<"a", "b">>, EmptyTopic}, payload \in {"", "bad", "t2"},
        sourceBroker \in {"broker1", "broker2"} : Process_v2(topic, payload, sourceBroker)

(***************************************************************************)
(* Processor.GetStats: three atomic loads, one action each, between which *)
(* other threads can run.                                                 *)
(***************************************************************************)
\* line 289: atomic.LoadUint64(&p.stats.Processed)
GetStats_Processed ==
  /\ snap.pc \in {"idle", "done"}
  /\ snap' = [pc |-> "matched", Processed |-> stats.Processed, Matched |-> 0,
            Errors |-> 0, seen |-> {stats}]
  /\ UNCHANGED <<indexVars, procVars, adapterVars, subsVars, routerVars,
                 natsVars, convVars, managedVars>>

\* line 290: atomic.LoadUint64(&p.stats.Matched)
GetStats_Matched ==
  /\ snap.pc = "matched"
  /\ snap' = [snap EXCEPT !.pc = "errors", !.Matched = stats.Matched]
  /\ UNCHANGED <<indexVars, procVars, adapterVars, subsVars, routerVars,
                 natsVars, convVars, managedVars>>

\* line 291: atomic.LoadUint64(&p.stats.Errors), and the return
GetStats_Errors ==
  /\ snap.pc = "errors"
  /\ snap' = [snap EXCEPT !.pc = "done", !.Errors = stats.Errors]
  /\ UNCHANGED <<indexVars, procVars, adapterVars, subsVars, routerVars,
                 natsVars, convVars, managedVars>>

\* one thread calling Process, one calling GetStats
NextStats ==
  \/ \E topic \in ProcTopics, payload \in Payloads : Process_Get(1, topic, payload)
  \/ Process_Find(1)
  \/ Process_Parse(1)
  \/ Process_Count(1)
  \/ Process_Return(1)
  \/ \E rules \in RuleLists : LoadRules_Clear(rules)
  \/ LoadRules_Add
  \/ LoadRules_Return
  \/ GetStats_Processed
  \/ GetStats_Matched
  \/ GetStats_Errors

(***************************************************************************)
(* The NATS adapter of internal/broker/nats.                               *)
(***************************************************************************)
\* PublisherImpl.Publish on the broker statistics st: conn is what
\* IsConnected returns, libOK whether the NATS library accepts the message
Publish(st, conn, libOK) ==
  IF ~conn THEN [stats |-> st, err |-> TRUE]
  ELSE IF ~libOK THEN [stats |-> [st EXCEPT !.Errors = @ + 1], err |-> TRUE]
  ELSE [stats |-> [st EXCEPT !.MessagesPublished = @ + 1], err |-> FALSE]

RECURSIVE PublishEach(_, _, _, _, _)
\* the publish loop of handleMessage from action i on; refused is the set of
\* actions the library refuses.  Yields the statistics and the failure count.
PublishEach(st, conn, actions, refused, i) ==
  IF i > Len(actions) THEN [stats |-> st, failed |-> 0, tried |-> 0]
  ELSE LET r == Publish(st, conn, i \notin refused)
           rest == PublishEach(r.stats, conn, actions, refused, i + 1)
       IN [stats |-> rest.stats,
           failed |-> rest.failed + (IF r.err THEN 1 ELSE 0),
           tried |-> rest.tried + 1]

\* NATSBroker.Start: load the rules, subscribe to their topics
NATS_Start(rules) ==
  /\ loads < MaxLoads
  /\ LET idx == LoadRules(rules)
     IN /\ exactMatches' = idx.exactMatches
        /\ tree' = idx.tree
        /\ idxStats' = idx.stats
  /\ held' = [r \in Rules |-> Count(r, rules)]
  /\ loads' = loads + 1
  /\ loadedPrev' = rules
  /\ natsSubs' = IF natsConnected THEN Range(RuleTopics(rules)) ELSE natsSubs
  /\ natsRun' = IF natsConnected THEN [natsRun EXCEPT !.wg = @ + 1] ELSE natsRun
  /\ UNCHANGED <<mu, thr, idxCalls, lastFind, msgs, pool, lastGet, stats, call,
                 calls, jobChan, closed, submits, wState, wMsg, closePc, loader,
                 adapterVars, subsVars, routerVars, observerVars, natsConnected,
                 natsStats, natsHist, convVars, managedVars>>

\* the connection to the NATS server is lost
NATS_Disconnected ==
  /\ natsConnected
  /\ losses < MaxLosses
  /\ natsConnected' = FALSE
  /\ losses' = losses + 1
  /\ UNCHANGED <<indexVars, procVars, linkUp, sessionSubs, routes, connected,
                 topics, subscribed, brokerStats, pending, received, deliveries,
                 lostSubs, restored, subsVars, routerVars, observerVars, natsSubs,
                 natsStats, natsHist, natsRun, convVars, managedVars>>

\* strings.ReplaceAll for one-character old and new
ReplaceAll(s, old, new) == [i \in DOMAIN s |-> IF s[i] = old THEN new ELSE s[i]]

ToNATSSubject(mqttTopic) ==
  ReplaceAll(ReplaceAll(ReplaceAll(mqttTopic, "+", "*"), "#", ">"), "/", ".")

\* ToMQTTTopic that leaves the separators as they are
ToMQTTTopic_keepDots(natsSubject) ==
  ReplaceAll(ReplaceAll(natsSubject, "*", "+"), ">", "#")

ToMQTTTopic(natsSubject) ==
  ReplaceAll(ReplaceAll(ReplaceAll(natsSubject, "*", "+"), ">", "#"), ".", "/")

\* whether the NATS server delivers a message published on subject to a
\* subscription to pattern: "*" stands for one token, a final ">" for one or
\* more.  Subjects are kept as lists of tokens.
SubjectMatches(pattern, subject) ==
  LET n == Len(pattern)
      tok(i) == pattern[i] = "*" \/ pattern[i] = subject[i]
  IN IF n > 0 /\ pattern[n] = ">"
       THEN Len(subject) >= n /\ \A i \in 1..(n - 1) : tok(i)
       ELSE Len(subject) = n /\ \A i \in 1..n : tok(i)

\* SubscriptionManagerImpl.handleMessage, run by the callback that
\* subscribeTopic registered for originalTopic, on a message the server
\* delivers to that subscription
NATS_handleMessage(originalTopic, subject, payload) ==
  /\ originalTopic \in natsSubs
  /\ SubjectMatches(ToNATSSubject(originalTopic), subject)
  /\ natsHist.handled < MaxHandled
  /\ LET r == ProcessWhole(originalTopic, payload)
         st == [natsStats EXCEPT !.MessagesReceived = @ + 1]
         h == [natsHist EXCEPT !.handled = @ + 1, !.subject = subject,
                               !.topic = originalTopic]
     IN /\ CallProcess(r)
        /\ IF r.err
             THEN /\ natsStats' = [st EXCEPT !.Errors = @ + 1]
                  /\ natsHist' = [h EXCEPT !.procErrors = @ + 1]
             ELSE \E refused \in SUBSET DOMAIN r.actions :
                    LET p == PublishEach(st, natsConnected, r.actions, refused, 1)
                    IN /\ natsStats' = p.stats
                       /\ natsHist' = [h EXCEPT !.actions = @ + Len(r.actions),
                                                !.tried = @ + p.tried,
                                                !.failed = @ + p.failed]
  /\ UNCHANGED <<mu, thr, idxCalls, exactMatches, tree, held, lastFind, call,
                 calls, jobChan, closed, submits, wState, wMsg, closePc, loader,
                 loads, loadedPrev, linkUp, sessionSubs, routes, connected,
                 topics, subscribed, brokerStats, pending, received, deliveries,
                 losses, lostSubs, restored, subsVars, routerVars, natsConnected,
                 natsSubs, natsRun, convVars, managedVars>>

\* the context passed to Start is cancelled
NATS_CtxDone ==
  /\ ~natsRun.ctxDone
  /\ natsRun' = [natsRun EXCEPT !.ctxDone = TRUE]
  /\ UNCHANGED <<indexVars, procVars, adapterVars, subsVars, routerVars,
                 observerVars, natsConnected, natsSubs, natsStats, natsHist,
                 convVars, managedVars>>

\* a goroutine started by Start gets past <-ctx.Done(): UnsubscribeAll, then
\* the deferred wg.Done()
NATS_Monitor ==
  /\ natsRun.ctxDone
  /\ natsRun.wg > 0
  /\ natsSubs' = {}
  /\ natsRun' = [natsRun EXCEPT !.wg = @ - 1]
  /\ UNCHANGED <<indexVars, procVars, adapterVars, subsVars, routerVars,
                 observerVars, natsConnected, natsStats, natsHist, convVars,
                 managedVars>>

\* NATSBroker.Close up to its last line: UnsubscribeAll, Disconnect and
\* Processor.Close, which closes the job channel and waits for the workers,
\* none of which holds a message
NATS_Close ==
  /\ natsRun.close = "none"
  /\ natsSubs' = {}
  /\ natsConnected' = FALSE
  /\ closed' = TRUE
  /\ wState' = [w \in Workers |-> "stopped"]
  /\ natsRun' = [natsRun EXCEPT !.close = "waiting"]
  /\ UNCHANGED <<indexVars, msgs, pool, lastGet, stats, call, calls, jobChan,
                 submits, wMsg, closePc, loader, loads, loadedPrev, adapterVars,
                 subsVars, routerVars, observerVars, natsStats, natsHist,
                 convVars, managedVars>>

\* the last line of Close: b.wg.Wait() returns when no goroutine of Start
\* is left
NATS_Close_Return ==
  /\ natsRun.close = "waiting"
  /\ natsRun.wg = 0
  /\ natsRun' = [natsRun EXCEPT !.close = "returned"]
  /\ UNCHANGED <<indexVars, procVars, adapterVars, subsVars, routerVars,
                 observerVars, natsConnected, natsSubs, natsStats, natsHist,
                 convVars, managedVars>>

NextNATS ==
  \/ \E rules \in RuleLists : NATS_Start(rules)
  \/ NATS_Disconnected
  \/ \E topic \in ProcTopics \cup {<<"a", "+">>, <<"a", "#">>}, subject \in ProcTopics,
        payload \in Payloads :
       NATS_handleMessage(topic, subject, payload)
  \/ NATS_CtxDone
  \/ NATS_Monitor
  \/ NATS_Close
  \/ NATS_Close_Return

(***************************************************************************)
(* Topic conversion of the NATS adapter.  A string is the sequence of its  *)
(* characters.                                                             *)
(***************************************************************************)
\* an MQTT topic is converted to a NATS subject
Conv_ToNATSSubject(mqttTopic) ==
  /\ conv.pc = "idle"
  /\ conv' = [conv EXCEPT !.pc = "nats", !.mqtt = mqttTopic,
                          !.nats = ToNATSSubject(mqttTopic)]
  /\ UNCHANGED <<indexVars, procVars, adapterVars, subsVars, routerVars,
                 observerVars, natsVars, managedVars>>

\* the subject is converted back to an MQTT topic
Conv_ToMQTTTopic ==
  /\ conv.pc = "nats"
  /\ conv' = [conv EXCEPT !.pc = "back", !.back = ToMQTTTopic(conv.nats)]
  /\ UNCHANGED <<indexVars, procVars, adapterVars, subsVars, routerVars,
                 observerVars, natsVars, managedVars>>

NextConv ==
  \/ \E mqttTopic \in SeqsUpTo({"a", "/", "+", "#", ".", "*", ">"}, MaxLen) :
       Conv_ToNATSSubject(mqttTopic)
  \/ Conv_ToMQTTTopic

(***************************************************************************)
(* ManagedBroker (internal/broker/manager.go).                             *)
(***************************************************************************)
ManagedTopics == {<<"a", "b">>, <<"a", "+">>}

\* ManagedBroker.IsConnected
IsConnected == mbState = "connected" /\ mbClientUp

\* ManagedBroker.Subscribe without the connection check
ManagedSubscribe_unchecked(ts, conn, topic, qos, libOK) ==
  IF ~libOK THEN [topics |-> ts, err |-> TRUE]
  ELSE [topics |-> (topic :> qos) @@ ts, err |-> FALSE]

\* ManagedBroker.Subscribe on the recorded subscriptions ts: conn is what
\* IsConnected returns, libOK whether the client's token completes without error
ManagedSubscribe(ts, conn, topic, qos, libOK) ==
  IF ~conn THEN [topics |-> ts, err |-> TRUE]
  ELSE IF ~libOK THEN [topics |-> ts, err |-> TRUE]
  ELSE [topics |-> (topic :> qos) @@ ts, err |-> FALSE]

\* the call op on topic returned r
ManagedCall(op, topic, r) ==
  /\ mbTopics' = r.topics
  /\ mbLast' = [op |-> op, topic |-> topic, connected |-> IsConnected, err |-> r.err,
                before |-> mbTopics, after |-> r.topics]
  /\ UNCHANGED <<indexVars, procVars, adapterVars, subsVars, routerVars,
                 observerVars, natsVars, convVars, mbState, mbClientUp,
                 mbOnConnect, mbAuto, mbConnect, mbStopped>>

Managed_Subscribe(topic, qos, libOK) ==
  ManagedCall("Subscribe", topic, ManagedSubscribe(mbTopics, IsConnected, topic, qos, libOK))

\* ManagedBroker.Unsubscribe
Managed_Unsubscribe(topic, libOK) ==
  ManagedCall("Unsubscribe", topic,
              IF ~IsConnected THEN [topics |-> mbTopics, err |-> TRUE]
              ELSE IF ~libOK THEN [topics |-> mbTopics, err |-> TRUE]
              ELSE [topics |-> [t \in DOMAIN mbTopics \ {topic} |-> mbTopics[t]],
                    err |-> FALSE])

\* ManagedBroker.Publish
Managed_Publish(topic, libOK) ==
  ManagedCall("Publish", topic,
              [topics |-> mbTopics, err |-> ~IsConnected \/ ~libOK])

\* ManagedBroker.Connect; outcome is what becomes of the client's connect
\* token within ten seconds: it succeeds ("ok"), it fails ("error"), or it is
\* still pending ("timeout") and the client goes on trying
Managed_Connect(outcome) ==
  /\ ~mbStopped
  /\ ~mbClientUp
  /\ mbState' = IF outcome = "error" THEN "error" ELSE "connecting"
  /\ mbClientUp' = (outcome = "ok")
  /\ mbOnConnect' = (outcome = "ok")
  /\ mbAuto' = IF outcome = "timeout" THEN "connect" ELSE "off"
  /\ mbConnect' = [err |-> outcome # "ok", state |-> mbState']
  /\ UNCHANGED <<indexVars, procVars, adapterVars, subsVars, routerVars,
                 observerVars, natsVars, convVars, mbTopics, mbLast, mbStopped>>

\* handleConnect, the client's OnConnect handler: every recorded topic is
\* subscribed again with its recorded qos
Managed_handleConnect ==
  /\ mbOnConnect
  /\ mbOnConnect' = FALSE
  /\ mbState' = "connected"
  /\ UNCHANGED <<indexVars, procVars, adapterVars, subsVars, routerVars,
                 observerVars, natsVars, convVars, mbClientUp, mbTopics, mbLast,
                 mbAuto, mbConnect, mbStopped>>

\* the connection is lost: handleDisconnect, the ConnectionLost handler; the
\* client (SetAutoReconnect(true)) starts to reconnect
Managed_handleDisconnect ==
  /\ mbClientUp
  /\ mbClientUp' = FALSE
  /\ mbOnConnect' = FALSE
  /\ mbState' = "disconnected"
  /\ mbAuto' = "reconnect"
  /\ UNCHANGED <<indexVars, procVars, adapterVars, subsVars, routerVars,
                 observerVars, natsVars, convVars, mbTopics, mbLast, mbConnect,
                 mbStopped>>

\* handleReconnecting, the handler the client calls before it reconnects
Managed_handleReconnecting ==
  /\ mbAuto = "reconnect"
  /\ mbState # "reconnecting"
  /\ mbState' = "reconnecting"
  /\ UNCHANGED <<indexVars, procVars, adapterVars, subsVars, routerVars,
                 observerVars, natsVars, convVars, mbClientUp, mbOnConnect,
                 mbTopics, mbLast, mbAuto, mbConnect, mbStopped>>

\* the client, trying in the background, has got its connection
Managed_Reconnected ==
  /\ mbAuto # "off"
  /\ mbAuto' = "off"
  /\ mbClientUp' = TRUE
  /\ mbOnConnect' = TRUE
  /\ UNCHANGED <<indexVars, procVars, adapterVars, subsVars, routerVars,
                 observerVars, natsVars, convVars, mbState, mbTopics, mbLast,
                 mbConnect, mbStopped>>

\* ManagedBroker.Disconnect of a broker whose State is not disconnected
Managed_Disconnect ==
  /\ ~mbStopped
  /\ mbState # "disconnected"
  /\ mbState' = "disconnected"
  /\ mbClientUp' = FALSE
  /\ mbOnConnect' = FALSE
  /\ mbAuto' = "off"
  /\ UNCHANGED <<indexVars, procVars, adapterVars, subsVars, routerVars,
                 observerVars, natsVars, convVars, mbTopics, mbLast, mbConnect,
                 mbStopped>>

\* Manager.Stop: Disconnect of every managed broker; Disconnect returns at
\* once, the client untouched, when the broker's State is disconnected
Managed_Stop ==
  /\ ~mbStopped
  /\ mbStopped' = TRUE
  /\ IF mbState = "disconnected"
       THEN UNCHANGED <<mbState, mbClientUp, mbOnConnect, mbAuto>>
       ELSE /\ mbState' = "disconnected"
            /\ mbClientUp' = FALSE
            /\ mbOnConnect' = FALSE
            /\ mbAuto' = "off"
  /\ UNCHANGED <<indexVars, procVars, adapterVars, subsVars, routerVars,
                 observerVars, natsVars, convVars, mbTopics, mbLast, mbConnect>>

NextManaged ==
  \/ \E topic \in ManagedTopics, qos \in {0, 1}, libOK \in BOOLEAN :
       Managed_Subscribe(topic, qos, libOK)
  \/ \E topic \in ManagedTopics, libOK \in BOOLEAN : Managed_Unsubscribe(topic, libOK)
  \/ \E topic \in ManagedTopics, libOK \in BOOLEAN : Managed_Publish(topic, libOK)
  \/ \E outcome \in {"ok", "error", "timeout"} : Managed_Connect(outcome)
  \/ Managed_handleConnect
  \/ Managed_handleDisconnect
  \/ Managed_handleReconnecting
  \/ Managed_Reconnected
  \/ Managed_Disconnect
  \/ Managed_Stop

Init ==
  /\ InitProc /\ InitAdapter
  /\ exactMatches = <<>>
  /\ tree = EmptyTree
  /\ idxStats = NewRuleIndexStats
  /\ held = [r \in Rules |-> 0]
  /\ lastFind = [topic |-> EmptyTopic, result |-> <<>>, done |-> FALSE]
  /\ mu = [m \in {"idx", "tree"} |-> [w |-> 0, readers |-> {}]]
  /\ thr = [t \in Callers |-> [op |-> "none", arg |-> 0, todo |-> <<>>]]
  /\ idxCalls = 0
  /\ smTopics = <<>>
  /\ wildcards = (<<>> :> NewTopicNode(""))
  /\ lastMatch = [topic |-> EmptyTopic, result |-> <<>>, done |-> FALSE]
  /\ lastProcess = [done |-> FALSE, topic |-> EmptyTopic, payload |-> "",
                    sourceBroker |-> "", values |-> EmptyMap, rules |-> <<>>,
                    results |-> <<>>, err |-> FALSE]
  /\ snap = [pc |-> "idle", Processed |-> 0, Matched |-> 0, Errors |-> 0, seen |-> {}]
  /\ natsConnected = TRUE
  /\ natsSubs = {}
  /\ natsStats = [MessagesReceived |-> 0, MessagesPublished |-> 0, Errors |-> 0]
  /\ natsHist = [handled |-> 0, procErrors |-> 0, actions |-> 0, tried |-> 0, failed |-> 0,
                 subject |-> <<>>, topic |-> <<>>]
  /\ natsRun = [ctxDone |-> FALSE, wg |-> 0, close |-> "none"]
  /\ conv = [pc |-> "idle", mqtt |-> <<>>, nats |-> <<>>, back |-> <<>>]
  /\ mbState = "disconnected"
  /\ mbClientUp = FALSE
  /\ mbOnConnect = FALSE
  /\ mbTopics = EmptyMap
  /\ mbLast = [op |-> "none", topic |-> <<>>, connected |-> FALSE, err |-> FALSE,
              before |-> EmptyMap, after |-> EmptyMap]
  /\ mbAuto = "off"
  /\ mbConnect = [err |-> FALSE, state |-> "disconnected"]
  /\ mbStopped = FALSE

NextIndex ==
  \/ \E rule \in Rules : IndexAdd(rule)
  \/ \E rule \in Rules : IndexRemove(rule)
  \/ \E topic \in FindTopics : IndexFind(topic)
  \/ IndexClear

\* an index filled by earlier Add calls, then replaced by LoadRules; Find is
\* called between the loads
NextLoad ==
  \/ \E rule \in Rules : loader.pc = "idle" /\ loads = 0 /\ IndexAdd(rule)
  \/ \E topic \in FindTopics : loader.pc = "idle" /\ IndexFind(topic)
  \/ \E rules \in RuleLists \cup {<<7, 3>>, <<4, 5>>, <<2, 8, 1>>} : LoadRules_Clear(rules)
  \/ LoadRules_Add
  \/ LoadRules_Return

NextRules ==
  \/ \E topic \in ProcTopics, payload \in Payloads \cup {"{}"} : Process_Get(1, topic, payload)
  \/ Process_Find(1)
  \/ Process_Parse(1)
  \/ Process_Count(1)
  \/ Process_Return(1)
  \/ \E rules \in RuleLists \cup {<<7, 3>>, <<4, 5>>, <<2, 8, 1>>} : LoadRules_Clear(rules)
  \/ LoadRules_Add
  \/ LoadRules_Return

\* the rule index driven directly by Add, Remove, Find and Clear
SpecIndex == Init /\ [][NextIndex]_vars

\* threads calling Add, Remove, Find, Clear and GetStats on one index
NextLocked ==
  \/ \E t \in Callers, op \in {"add", "remove", "find"}, arg \in {1, 3} :
       Locked_Call(t, op, arg)
  \/ \E t \in Callers, op \in {"clear", "stats"} : Locked_Call(t, op, 0)
  \/ \E t \in Callers : Locked_Step(t)

\* every thread that can take a step of its call eventually takes one
SpecLocked ==
  Init /\ [][NextLocked]_vars /\ \A t \in Callers : WF_vars(Locked_Step(t))

\* LoadRules replacing the content of the index
SpecLoad == Init /\ [][NextLoad]_vars

\* Process over every kind of loaded rule
SpecRules == Init /\ [][NextRules]_vars

\* the message router's Process(msg)
SpecRouter == Init /\ [][NextRouter]_vars

\* GetStats running beside Process
SpecStats == Init /\ [][NextStats]_vars

\* one managed broker of the broker manager
SpecManaged == Init /\ [][NextManaged]_vars

\* the topic conversion of the NATS adapter
SpecConv == Init /\ [][NextConv]_vars

\* the NATS adapter
SpecNATS == Init /\ [][NextNATS]_vars

\* SpecNATS with every goroutine that can run eventually running: Close
\* once it can return, and the goroutines of Start once the context is done;
\* nothing obliges the caller of Start to cancel the context
SpecNATSLive ==
  SpecNATS /\ WF_vars(NATS_Close_Return) /\ WF_vars(NATS_Monitor)

\* the processor: concurrent Process calls and LoadRules
SpecProc == Init /\ [][NextProc]_vars

\* the processor's worker pool and Close
SpecPool == Init /\ [][NextPool]_vars

\* concurrent Process calls against one loaded rule
SpecConc == Init /\ [][NextConc]_vars

\* the MQTT broker adapter of internal/broker/broker.go and its client
SpecBroker == Init /\ [][NextBroker]_vars

\* the MQTT adapter of internal/broker/mqtt and its client
SpecMQTT == Init /\ [][NextMQTT]_vars

\* the subscription manager of internal/broker/subscription.go
SpecSubs == Init /\ [][NextSubs]_vars

(***************************************************************************)
(* Wildcard semantics of topic patterns, stated on patterns and topics     *)
(* alone: "+" matches exactly one segment, a final "#" matches one or more *)
(* trailing segments, every other segment matches itself.                  *)
(***************************************************************************)
RECURSIVE Matches(_, _)
Matches(pattern, topic) ==
  IF Len(pattern) = 0 THEN Len(topic) = 0
  ELSE IF pattern[1] = "#" /\ Len(pattern) = 1 THEN Len(topic) >= 1
  ELSE IF Len(topic) = 0 THEN FALSE
  ELSE IF pattern[1] = "+" THEN Matches(Tail(pattern), Tail(topic))
  ELSE pattern[1] = topic[1] /\ Matches(Tail(pattern), Tail(topic))

\* C1: for every index state reached by Add, Remove and Clear and every
\* concrete topic T, Find(T) contains each held rule whose pattern matches T
\* exactly as often as it is held, and contains no rule whose pattern does
\* not match T.
C1_FindExactlyMatching ==
  \A T \in ConcreteTopics :
    LET res == Find(exactMatches, tree, T)
    IN \A r \in Rules :
         Count(r, res) = IF Matches(Rule[r].Topic, T) THEN held[r] ELSE 0

\* a Find of "a/b" that returned the exact rule and the "a/+" rule
C1_Witness ==
  /\ lastFind.done
  /\ lastFind.topic = <<"a", "b">>
  /\ lastFind.result = <<1, 2>>

StoredExactBeforeWildcard(res) ==
  \A i, j \in DOMAIN res :
    (i < j) => ~(containsWildcard(Rule[res[i]].Topic) /\ ~containsWildcard(Rule[res[j]].Topic))

\* C10: in every Find result, the rules stored under a wildcard-free pattern
\* come before the rules stored under a pattern with a wildcard.
C10_ExactBeforeWildcard ==
  /\ StoredExactBeforeWildcard(lastFind.result)
  /\ \A T \in ConcreteTopics \cup FindTopics :
       StoredExactBeforeWildcard(Find(exactMatches, tree, T))

\* a Find of "a/b" that returned the exact rule followed by the "a/#" rule
C10_Witness ==
  /\ lastFind.done
  /\ lastFind.topic = <<"a", "b">>
  /\ lastFind.result = <<1, 3>>

\* C2: every Process call that has returned without error has added exactly 1
\* to the processed counter, 1 to the matched counter if it returned at least
\* one action and 0 otherwise, and nothing to the errors counter.
C2_CountersPerCall ==
  \A c \in Callers :
    (call[c].pc = "done" /\ ~call[c].err) =>
      /\ call[c].dProcessed = 1
      /\ call[c].dMatched = (IF Len(call[c].actions) > 0 THEN 1 ELSE 0)
      /\ call[c].dErrors = 0

\* the messages that are outside the pool
Outstanding == DOMAIN msgs \ pool

\* C3 as stated: once Close has returned every worker has exited and every
\* message taken from the pool is back in it.
C3_CloseReturnsAllMessages ==
  closePc = "returned" =>
    /\ \A w \in Workers : wState[w] = "stopped"
    /\ Outstanding = {}

\* C3: once Close has returned every worker has exited, the queue is empty
\* and every message that was handed to the worker pool is back in the
\* message pool: a message still outside it is held by a thread that is
\* inside a synchronous Process call.
C3_CloseDrainsWorkers ==
  closePc = "returned" =>
    /\ \A w \in Workers : wState[w] = "stopped" /\ wMsg[w] = 0
    /\ jobChan = <<>>
    /\ Outstanding \subseteq {call[c].msg : c \in Callers}

C3_Witness ==
  /\ closePc = "returned"
  /\ submits > 0
  /\ Outstanding # {}

\* C4: a message that MessagePool.Get takes out of the pool, and every
\* message lying in the pool, has an empty topic, a zero-length payload, an
\* empty value map, an empty rule list and an empty action list.
C4_GetObservesCleared ==
  /\ lastGet.fromPool => lastGet.msg = NewMessage
  /\ \A m \in pool : msgs[m] = NewMessage

C4_Witness ==
  /\ lastGet.fromPool
  /\ Cardinality(DOMAIN msgs) = 1
  /\ stats.Matched > 0

\* C5: no action returned by Process has a topic in which a placeholder is
\* left unresolved.
C5_NoUnresolvedTopic ==
  \A c \in Callers :
    call[c].pc = "done" =>
      \A i \in DOMAIN call[c].actions : ~HasPlaceholder(call[c].actions[i].Topic)

\* C6: every Find made by Process returned the matches of the complete rule
\* set installed by the latest completed LoadRules or of the complete rule
\* set a running LoadRules is installing.
C6_FindSeesCompleteSet == \A c \in Callers : call[c].consistent

\* C9: when n Process calls with valid payloads on a topic matched by the
\* one loaded rule have been started and all of them have returned, the
\* counters are processed = n, matched = n, errors = 0.
C9_NoLostUpdate ==
  (\A c \in Callers : call[c].pc \in {"idle", "done"}) =>
    /\ stats.Processed = calls
    /\ stats.Matched = calls
    /\ stats.Errors = 0

C9_Witness ==
  /\ calls >= 2
  /\ \A c \in Callers : call[c].pc \in {"idle", "done"}
  /\ \E c, d \in Callers : c # d /\ call[c].pc = "done" /\ call[d].pc = "done"

\* C7: once the connect handler has run to its end after a connection loss,
\* the broker holds a subscription again for every topic pattern that was
\* subscribed when the connection was lost.
C7_ResubscribedAfterReconnect == restored => lostSubs \subseteq sessionSubs

\* C8: for a message received from the broker, Process is invoked at most
\* once.
C8_ProcessAtMostOnce == received.calls <= 1

\* whether a pattern whose final segment is "#" matches the topic: the
\* segments before the "#" match the topic's leading segments and one or
\* more segments follow
HashPatternMatches(pattern, topic) ==
  /\ Len(topic) >= Len(pattern)
  /\ \A i \in 1..(Len(pattern) - 1) : pattern[i] = "+" \/ pattern[i] = topic[i]

\* the C11 property of the rule index
C11_RuleTree ==
  \A T \in ConcreteTopics :
    LET res == Find(exactMatches, tree, T)
    IN \A r \in Rules :
         (held[r] > 0 /\ Rule[r].Topic[Len(Rule[r].Topic)] = "#") =>
           (r \in Range(res) <=> HashPatternMatches(Rule[r].Topic, T))

\* the C11 property of the subscription manager
C11_SubscriptionTree ==
  \A T \in ConcreteTopics :
    LET res == Match(smTopics, wildcards, T)
    IN \A f \in DOMAIN wildcards :
         (Len(f) > 0 /\ f[Len(f)] = "#" /\ wildcards[f].isEnd) =>
           ((\E i \in DOMAIN res : res[i].Topic = f) <=> HashPatternMatches(f, T))

\* C11: a pattern whose final segment is "#" matches a topic exactly when
\* the topic's leading segments match the segments before the "#" and the
\* topic has one or more further segments, in the rule index and in the
\* subscription manager.
C11_HashMatchesTrailing == C11_RuleTree /\ C11_SubscriptionTree

\* C12: a held rule whose entire pattern is "#" is returned by Find for every
\* topic, the empty topic included.
C12_HashMatchesEveryTopic ==
  \A T \in ConcreteTopics \cup {EmptyTopic} :
    \A r \in Rules :
      (held[r] > 0 /\ Rule[r].Topic = <<"#">>) =>
        r \in Range(Find(exactMatches, tree, T))

\* A pattern is ill-formed when "#" occurs anywhere but as the entire final
\* segment, or "+" occurs in a segment without being the entire segment.
IllFormed(pattern) ==
  \E i \in 1..Len(pattern) :
    \/ pattern[i] \in SegHasHash /\ (pattern[i] # "#" \/ i # Len(pattern))
    \/ pattern[i] \in SegHasPlus /\ pattern[i] # "+"

\* The rules stored anywhere in a tree, as a set of <<path, rule>> pairs
StoredIn(t) == {<<p, r>> \in (DOMAIN t) \X Rules : r \in Range(t[p].rules)}

\* C13: Add of a rule with an ill-formed pattern returns an error and stores
\* no rule, in whatever state of the index it is called.
C13_AddRejectsIllFormed ==
  \A r \in Rules :
    IllFormed(Rule[r].Topic) =>
      LET res == Add(exactMatches, tree, idxStats, r)
      IN /\ res.err
         /\ res.exactMatches = exactMatches
         /\ StoredIn(res.tree) = StoredIn(tree)

\* C14: every non-root node of the wildcard tree has a non-empty rule list or
\* at least one child, after any sequence of Add, Remove and Clear calls.
C14_NoEmptyNode ==
  \A p \in DOMAIN tree :
    p # <<>> => (Len(tree[p].rules) > 0 \/ HasChildren(tree, p))

\* C15: a Find call (the step that counts one more lookup) adds exactly 1 to
\* the Matches counter when it returns at least one rule, and leaves the
\* counter as it was when it returns none.
C15_MatchesIffResult ==
  [][(idxStats'.Lookups = idxStats.Lookups + 1) =>
       idxStats'.Matches =
         idxStats.Matches + (IF Len(lastFind'.result) > 0 THEN 1 ELSE 0)]_vars

\* a Find that returned rules and was counted as a match
C15_Witness ==
  /\ lastFind.done
  /\ Len(lastFind.result) > 0
  /\ idxStats.Matches > 0

\* C16: a Clear call on an index that holds at least two rules leaves an
\* index for which Find returns no rule for any topic and whose RuleCount and
\* WildcardRules are zero, while Lookups and Matches keep the values they had
\* before the call.
C16_ClearFrame ==
  [][(HeldTotal >= 2 /\ held' = [r \in Rules |-> 0]) =>
       /\ \A T \in ConcreteTopics \cup FindTopics :
            Find(exactMatches', tree', T) = <<>>
       /\ idxStats'.RuleCount = 0
       /\ idxStats'.WildcardRules = 0
       /\ idxStats'.Lookups = idxStats.Lookups
       /\ idxStats'.Matches = idxStats.Matches]_vars

\* an emptied index that still remembers a lookup that matched
C16_Witness ==
  /\ exactMatches = <<>>
  /\ tree = EmptyTree
  /\ idxStats.RuleCount = 0
  /\ idxStats.WildcardRules = 0
  /\ idxStats.Lookups > 0
  /\ idxStats.Matches > 0

\* C17: once LoadRules(R) has returned, Find returns for every non-empty
\* concrete topic T each rule of R whose pattern matches T, as often as it
\* occurs in R, and no other rule: nothing the index held before the call
\* remains.
C17_LoadedExactly ==
  (loader.pc = "idle" /\ loads > 0) =>
    \A T \in ConcreteTopics :
      LET res == Find(exactMatches, tree, T)
      IN \A r \in Rules :
           Count(r, res) = IF Matches(Rule[r].Topic, T) THEN Count(r, loadedPrev) ELSE 0

\* LoadRules has returned on an index in which an earlier Find had returned a
\* rule that is not part of the loaded list
C17_Witness ==
  /\ loader.pc = "idle"
  /\ loads > 0
  /\ loadedPrev # <<>>
  /\ idxStats.RuleCount > 0
  /\ lastFind.done
  /\ \E r \in Range(lastFind.result) : r \notin Range(loadedPrev)

\* C18: a Process call whose Find returns no rule (the call returns straight
\* from the lookup) yields no action and no error, adds 1 to the Processed
\* counter and leaves the Matched counter as it was.
C18_NoMatchCounted ==
  [][\A c \in Callers :
       (call[c].pc = "find" /\ call'[c].pc = "done") =>
         /\ ~call'[c].err
         /\ call'[c].actions = <<>>
         /\ stats'.Processed = stats.Processed + 1
         /\ stats'.Matched = stats.Matched]_vars

\* C19: when a Process call that found at least one rule goes on with a
\* payload that is not valid JSON, it returns an error and no action, adds
\* exactly 1 to the Errors counter, leaves Processed and Matched alone, and
\* its message is back in the pool.
C19_InvalidPayload ==
  [][\A c \in Callers :
       (/\ call[c].pc = "parse"
        /\ ~UnmarshalOK(call[c].payload)
        /\ call'[c] # call[c]) =>
         /\ call'[c].pc = "done"
         /\ call'[c].err
         /\ call'[c].actions = <<>>
         /\ stats'.Errors = stats.Errors + 1
         /\ stats'.Processed = stats.Processed
         /\ stats'.Matched = stats.Matched
         /\ call[c].msg \in pool']_vars

\* a call with an undecodable payload on a matched topic has failed
C19_Witness ==
  \E c \in Callers :
    /\ call[c].pc = "done"
    /\ call[c].err
    /\ ~UnmarshalOK(call[c].payload)
    /\ call[c].dErrors = 1
    /\ stats.Errors > 0

\* the conditions of a rule hold for the decoded values
ConditionsHold(rule, values) ==
  rule.Conditions.nil \/ evaluateConditions(rule.Conditions, values)

\* rendering the action of a rule meets a placeholder for which the message
\* has no value
RenderFails(rule, values) ==
  \E i \in DOMAIN rule.Action.Topic \cup DOMAIN rule.Action.Payload :
    \/ /\ i \in DOMAIN rule.Action.Topic
       /\ rule.Action.Topic[i].k = "var"
       /\ rule.Action.Topic[i].v \notin DOMAIN values
    \/ /\ i \in DOMAIN rule.Action.Payload
       /\ rule.Action.Payload[i].k = "var"
       /\ rule.Action.Payload[i].v \notin DOMAIN values

C22_MessageReturnedOnce ==
  [][\A c \in Callers :
       /\ (call'[c].pc \notin {"idle", "done"}) =>
            /\ call'[c].msg \in DOMAIN msgs'
            /\ call'[c].msg \notin pool'
            /\ \A d \in Callers \ {c} :
                 call'[d].pc \notin {"idle", "done"} => call'[d].msg # call'[c].msg
       /\ (call[c].pc \notin {"idle", "done"} /\ call'[c].pc = "done") =>
            /\ call[c].msg \notin pool
            /\ call[c].msg \in pool'
            /\ msgs'[call[c].msg] = NewMessage]_vars

\* two calls have returned, one with actions and one with a decoding error,
\* and every message object is in the pool
C22_Witness ==
  /\ DOMAIN msgs # {}
  /\ pool = DOMAIN msgs
  /\ \E c, d \in Callers :
       /\ call[c].pc = "done" /\ call[c].actions # <<>>
       /\ call[d].pc = "done" /\ call[d].err

\* C23: every action a Process call returns is the rendered action of a
\* matching rule whose Enabled flag is true; a disabled rule yields none.
C23_NoActionFromDisabled ==
  \A c \in Callers :
    call[c].pc \in {"count", "matched"} =>
      LET rules == msgs[call[c].msg].Rules
          values == msgs[call[c].msg].Values
      IN \A a \in Range(call[c].actions) :
           \E i \in DOMAIN rules :
             /\ Rule[rules[i]].Enabled
             /\ ConditionsHold(Rule[rules[i]], values)
             /\ a = processActionTemplate(Rule[rules[i]].Action, values).action

\* C24: no result of a Process(msg) call comes from a rule whose SourceBroker
\* is non-empty and differs from the broker the message arrived on, and a
\* matching rule with an empty SourceBroker that is enabled, whose conditions
\* hold and whose action renders is applied whatever that broker is.
C24_SourceBrokerFilter ==
  lastProcess.done =>
    /\ \A i \in DOMAIN lastProcess.results :
         Rule[lastProcess.results[i].Rule].SourceBroker
           \in {"", lastProcess.sourceBroker}
    /\ \A j \in DOMAIN lastProcess.rules :
         LET rule == Rule[lastProcess.rules[j]]
         IN (/\ rule.SourceBroker = ""
             /\ rule.Enabled
             /\ ConditionsHold(rule, lastProcess.values)
             /\ \A k \in DOMAIN rule.Action.Topic :
                  rule.Action.Topic[k].k = "var" =>
                    rule.Action.Topic[k].v \in DOMAIN lastProcess.values) =>
              \E i \in DOMAIN lastProcess.results :
                lastProcess.results[i].Rule = lastProcess.rules[j]

\* a message from broker2 matched the untagged "a/b" rule and the "a/#" rule
\* tagged broker1: only the former was applied
C24_Witness ==
  /\ lastProcess.done
  /\ lastProcess.sourceBroker = "broker2"
  /\ lastProcess.rules = <<1, 3>>
  /\ Len(lastProcess.results) = 1
  /\ lastProcess.results[1].Rule = 1

\* C25: the triple a GetStats call returns was the value of the three
\* counters at one instant.  The counters only grow, so a triple they held at
\* any instant at all is one they held at an instant of the call itself.
C25_SnapshotSimultaneous ==
  snap.pc = "done" =>
    [Processed |-> snap.Processed, Matched |-> snap.Matched, Errors |-> snap.Errors]
      \in snap.seen

\* C26: the NATS adapter has tried to publish every action of every message
\* it handled, and its Errors counter holds one count for every failed
\* Process call and one for every publish that failed.
C26_PublishFailureCounted ==
  /\ natsHist.tried = natsHist.actions
  /\ natsStats.Errors = natsHist.procErrors + natsHist.failed

\* how unspecific a pattern segment is: a literal, then "+", then "#"
SegRank(seg) == IF seg = "#" THEN 2 ELSE IF seg = "+" THEN 1 ELSE 0

\* pattern p is more specific than pattern q: over the segments both have, p
\* is nowhere less specific than q and somewhere more specific
MoreSpecific(p, q) ==
  LET both == 1..(IF Len(p) < Len(q) THEN Len(p) ELSE Len(q))
  IN /\ \A i \in both : p[i] = q[i] \/ SegRank(p[i]) < SegRank(q[i])
     /\ \E i \in both : SegRank(p[i]) < SegRank(q[i])

\* C27: among the wildcard rules that one Find call returned, no rule comes
\* after a rule whose pattern is less specific than its own: the rule with
\* the more specific pattern precedes.
C27_SpecificFirst ==
  lastFind.done =>
    \A i, j \in DOMAIN lastFind.result :
      LET p == Rule[lastFind.result[i]].Topic
          q == Rule[lastFind.result[j]].Topic
      IN (i < j /\ containsWildcard(p) /\ containsWildcard(q)) => ~MoreSpecific(q, p)

\* a Find call has returned two wildcard rules, one more specific than the other
C27_Witness ==
  /\ lastFind.done
  /\ \E i, j \in DOMAIN lastFind.result :
       /\ i < j
       /\ containsWildcard(Rule[lastFind.result[i]].Topic)
       /\ containsWildcard(Rule[lastFind.result[j]].Topic)
       /\ MoreSpecific(Rule[lastFind.result[i]].Topic, Rule[lastFind.result[j]].Topic)

\* the characters that occur in the string s
CharsOf(s) == {s[i] : i \in DOMAIN s}

\* C28: an MQTT topic that contains none of the characters ".", "*" and ">"
\* is what ToMQTTTopic returns for the subject ToNATSSubject made of it.
C28_RoundTrip ==
  (conv.pc = "back" /\ CharsOf(conv.mqtt) \cap {".", "*", ">"} = {}) => conv.back = conv.mqtt

\* such a topic with a separator and a wildcard, which the conversion
\* changed, has gone there and back
C28_Witness ==
  /\ conv.pc = "back"
  /\ CharsOf(conv.mqtt) \cap {".", "*", ">"} = {}
  /\ {"/", "+"} \subseteq CharsOf(conv.mqtt)
  /\ conv.nats # conv.mqtt

\* C29: in the payload of every action that Process returned, each
\* placeholder the message values cannot resolve has been replaced by the
\* empty string: no placeholder is left in it.
C29_MissingPayloadValueEmpty ==
  \A c \in Callers :
    call[c].pc = "done" =>
      \A i \in DOMAIN call[c].actions : ~HasPlaceholder(call[c].actions[i].Payload)

\* C30: a Subscribe, Unsubscribe or Publish call made on a managed broker
\* that was not connected returned an error and left the recorded
\* subscriptions as they were.
C30_NotConnectedRejected ==
  (mbLast.op \in {"Subscribe", "Unsubscribe", "Publish"} /\ ~mbLast.connected) =>
    (mbLast.err /\ mbLast.after = mbLast.before)

\* a subscription was recorded and a Subscribe of another topic was made
\* while the broker was not connected
C30_Witness ==
  /\ mbLast.op = "Subscribe"
  /\ ~mbLast.connected
  /\ DOMAIN mbLast.before # {}
  /\ mbLast.topic \notin DOMAIN mbLast.before

StoredFilters ==
  DOMAIN smTopics \cup {f \in DOMAIN wildcards : Len(f) > 0 /\ wildcards[f].isEnd}

\* C32: for every subscription store reached and every concrete topic T,
\* Match(T) holds exactly one entry for each stored subscription whose filter
\* matches T, whatever else is stored.
C32_OneEntryPerMatching ==
  \A T \in ConcreteTopics :
    LET res == Match(smTopics, wildcards, T)
    IN \A f \in StoredFilters :
         Matches(f, T) => Cardinality({i \in DOMAIN res : res[i].Topic = f}) = 1

\* a Match call on the present store has returned entries for an exact
\* subscription and a wildcard subscription that both match its topic
C32_Witness ==
  /\ lastMatch.done
  /\ lastMatch.result = Match(smTopics, wildcards, lastMatch.topic)
  /\ lastMatch.topic \in DOMAIN smTopics
  /\ \E f \in StoredFilters :
       /\ f # lastMatch.topic
       /\ Matches(f, lastMatch.topic)
       /\ \E i \in DOMAIN lastMatch.result : lastMatch.result[i].Topic = f

\* the state of worker w in the worker's life cycle: stopped once it has left
\* its loop, draining while it works on a closed queue, otherwise idle while
\* it waits for a message and running while it holds one
WorkerPhase(w) ==
  IF wState[w] = "stopped" THEN "stopped"
  ELSE IF closed THEN "draining"
  ELSE IF wState[w] = "idle" THEN "idle"
  ELSE "running"

\* C33: a worker changes its state only from idle to running, from running
\* to idle, from idle or running to draining and from draining to stopped;
\* a stopped worker stays stopped.
C33_WorkerLifeCycle ==
  [][\A w \in Workers :
       \/ WorkerPhase(w)' = WorkerPhase(w)
       \/ <<WorkerPhase(w), WorkerPhase(w)'>> \in
            {<<"idle", "running">>, <<"running", "idle">>, <<"idle", "draining">>,
             <<"running", "draining">>, <<"draining", "stopped">>}]_vars

\* a worker that took a message off the queue has stopped after the queue
\* was closed
C33_Witness ==
  /\ closed
  /\ \E w \in Workers : wState[w] = "stopped"
  /\ stats.Processed + stats.Errors > 0
  /\ submits > 0

\* C34: when a worker has decoded the payload of a message it took from the
\* queue, the message holds the actions a Process call on the same topic and
\* payload computes: the rendered actions of the rules the index finds for
\* the topic and whose conditions hold.
C34_WorkerRunsPipeline ==
  [][\A w \in Workers :
       (wState[w] = "running" /\ wState'[w] = "counted") =>
         LET m == wMsg[w]
         IN msgs'[m].Actions =
              ProcessRules(Find(exactMatches, tree, msgs[m].Topic), msgs'[m].Values)]_vars

\* C35: the action list a Process call has copied out of its message is the
\* caller's own: from the copy on, no step changes it, neither the return
\* of the message to the pool nor a step of any other call, a worker or a
\* loader, until the caller starts its next call
C35_ReturnedListOwned ==
  [][\A c \in Callers :
       (call[c].pc \in {"count", "matched", "done"} /\ call'[c].pc # "find") =>
         call'[c].actions = call[c].actions]_vars

\* a caller holds a returned, non-empty list while another call has run the
\* rules on a message taken from the pool and holds a different list
C35_Witness ==
  \E c, d \in Callers :
    /\ c # d
    /\ call[c].pc = "done" /\ call[c].actions # <<>>
    /\ call[d].pc \in {"count", "matched"} /\ lastGet.fromPool
    /\ call[d].actions # <<>> /\ call[d].actions # call[c].actions

\* C38: after any sequence of Add, Remove and Clear calls on the rule index,
\* a Remove of a rule that is not stored included, the RuleCount statistic
\* is the number of rules the index stores
C38_RuleCountIsStored == idxStats.RuleCount = HeldTotal

\* C37: for every message the NATS adapter has handled, the topic it passed
\* to Process is the subject the message was published on in MQTT form
C37_ConcreteTopicPassed ==
  natsHist.handled > 0 => natsHist.topic = ToMQTTTopic(natsHist.subject)

\* C40: a Close call that has reached its wait for the goroutines of Start
\* eventually returns, whether or not the context given to Start is
\* cancelled
C40_CloseTerminates ==
  (natsRun.close = "waiting") ~> (natsRun.close = "returned")

\* C36: threads that call Add, Remove, Find, Clear and GetStats on the rule
\* index concurrently never block each other for good: every call a thread
\* has started eventually returns
C36_EveryCallReturns ==
  \A t \in Callers : (thr[t].todo # <<>>) ~> (thr[t].todo = <<>>)

\* a writer has announced itself on the index mutex and waits for a reader
\* that is inside the topic tree, while the tree's own mutex is read-held
C36_Witness ==
  \E t, u \in Callers :
    /\ t # u
    /\ mu["idx"].w = t /\ thr[t].todo # <<>> /\ Head(thr[t].todo).k = "Wait"
    /\ u \in mu["idx"].readers /\ u \in mu["tree"].readers

====
